---------------------------- MODULE Spec2Model ----------------------------
(***************************************************************************)
(* A model of the MariaDB storage backend: the SQL statement splitter, the *)
(* transient-error classification and retry wrapper, the store lifecycle   *)
(* (Close / IsClosed / UnderlyingDB / UnderlyingConn) and store            *)
(* construction (New / openServerConnection).                              *)
(*                                                                         *)
(* Byte strings of the program are sequences of one-character strings.     *)
(* Go indexes from 0; sequences here index from 1, so script[i] of the     *)
(* source is script[i] here with i running from 1 to Len(script).          *)
(***************************************************************************)
EXTENDS Integers, Sequences, FiniteSets, TLC

VARIABLES
    \* ---- splitStatements (store.go 293-336)
    script,       \* the parameter
    i,            \* loop index
    current,      \* strings.Builder contents
    inString,     \* inside a string literal
    stringChar,   \* the active quote character (NoChar is byte(0))
    statements,   \* the result slice
    spc,          \* position of the function: "idle" | "scan" | "done"
    \* ---- isRetryableError (store.go 66-87)
    err,          \* the parameter
    retryable,    \* the value returned
    cpc,          \* position of the function: "idle" | "call" | "done"
    \* ---- withRetry (store.go 90-102)
    op,           \* the operation passed in: what its invocations return
    ctxDone,      \* the caller's context has been cancelled
    rpc,          \* "idle" | "start" | "call" | "inflight" | "backoff" |
                  \* "sleep" | "done"
    calls,        \* invocations of op so far
    opErr,        \* what the last invocation returned
    result,       \* what withRetry returned (read when rpc = "done")
    currentInterval, \* the exponential backoff's current interval, ms
    elapsed,      \* time since the backoff was reset, ms
    next,         \* the backoff duration being waited, ms
    timerFired,   \* the timer of the current wait has expired
    \* ---- MariaDBStore and the goroutines using it (store.go 31-38, 360-395)
    db,           \* s.db: Pool or NilDB
    closed,       \* s.closed, the atomic flag
    mu,           \* s.mu: the goroutine holding the write lock, or 0
    poolClosed,   \* Close has been called on the pool
    poolReclosed, \* Close has been called on the pool more than once
    crashed,      \* a goroutine has panicked
    closeReturned,\* some call of Close has returned
    gop,          \* per goroutine: the method it is in or was last in
    gpc,          \* per goroutine: its position in that method
    glocal,       \* per goroutine: the method's local (err, or the db read)
    gret,         \* per goroutine: what the method returned
    gafter,       \* per goroutine: the call began after a Close had returned
    \* ---- New and openServerConnection (store.go 105-214)
    cfg,          \* the *Config parameter
    envPassword,  \* the BEADS_MARIADB_PASSWORD environment variable
    serverUp,     \* the server accepts connections
    serverHasDB,  \* the database exists on the server
    npc,          \* "idle" | "defaults" | "open" | "initopen" | "createdb" |
                  \* "ping" | "schema" | "returned"
    connStr,      \* the primary connection string, as its parts
    primary,      \* the primary pool db: "none" | "open" | "closed"
    admin,        \* the administrative pool initDB: "none" | "open" | "closed"
    pinged,       \* the ping of the primary pool: "none" | "ok" | "failed"
    schemaRun,    \* initSchema: "none" | "ok" | "failed"
    nret,         \* what New returned: the store or not, and the error
    createResp,   \* what the server answered to CREATE DATABASE
    ndb,          \* the pool openServerConnection returned: "none" |
                  \* "primary" | "admin"
    \* ---- initSchemaOnDB and RunMigrations (store.go 217-286,
    \*      migrations.go 18-99), run by client processes on one database
    schema,       \* the baseline script
    defaultConfig,\* the seed script
    dbObjects,    \* the tables, columns, indexes, constraints, views and
                  \* seed rows the database holds
    mtop,         \* per client: the function it called, "initSchemaOnDB" or
                  \* "RunMigrations"
    mpc,          \* per client: its position
    frags,        \* per client: the fragments its range loop has yet to
                  \* visit
    midx,         \* per client: the index of RunMigrations' loop
    mcalls,       \* per client: the migrations invoked in this run, each
                  \* with its result
    mlog,         \* per client: the statements submitted in this run, each
                  \* with the server's answer
    merr,         \* per client: the error the run returned
    mprev         \* per client: the errors its earlier runs returned

splitVars == <<script, i, current, inString, stringChar, statements, spc>>

classifyVars == <<err, retryable, cpc>>

retryVars ==
    <<op, ctxDone, rpc, calls, opErr, result, currentInterval, elapsed, next,
      timerFired>>

storeVars ==
    <<db, closed, mu, poolClosed, poolReclosed, crashed, closeReturned, gop,
      gpc, glocal, gret, gafter>>

newVars ==
    <<cfg, envPassword, serverUp, serverHasDB, npc, connStr, primary, admin,
      pinged, schemaRun, nret, createResp, ndb>>

schemaVars ==
    <<schema, defaultConfig, dbObjects, mtop, mpc, frags, midx, mcalls, mlog,
      merr, mprev>>

vars ==
    <<splitVars, classifyVars, retryVars, storeVars, newVars, schemaVars>>

\* what the actions of one component leave alone
notSplit == <<classifyVars, retryVars, storeVars, newVars, schemaVars>>

notClassify == <<splitVars, retryVars, storeVars, newVars, schemaVars>>

notRetry == <<splitVars, classifyVars, storeVars, newVars, schemaVars>>

notStore == <<splitVars, classifyVars, retryVars, newVars, schemaVars>>

notNew == <<splitVars, classifyVars, retryVars, storeVars, schemaVars>>

\* what New leaves alone in the step that calls initSchema
notNewNorSchema == <<splitVars, classifyVars, retryVars, storeVars>>

\* what the steps of schema evolution leave alone
notSchema == <<splitVars, classifyVars, retryVars, storeVars, newVars>>

-----------------------------------------------------------------------------
(* Bounds of the model *)

\* longest enumerated script, in bytes
MaxLen == 4

\* most fragments an enumerated error message is made of
MaxFrags == 3

\* most failures an operation returns before its final outcome, unless it
\* fails on every invocation
MaxFails == 2

\* how long a slow invocation of the operation takes, ms
OpSlow == 29800

\* goroutines sharing one store
NumProcs == 2

\* the client processes evolving the schema of one database: two, each
\* with its own connection pool
Clients == {1, 2}

\* runs of schema evolution one client makes
MaxRuns == 2

\* longest enumerated baseline or seed script, in bytes
MaxScript == 5

-----------------------------------------------------------------------------
(* Character data *)

BS == "\\"
SQ == "'"
DQ == "\""
\* the backtick byte (the TLA+ lexer admits no backtick in a string)
BT == "BACKTICK"
SEMI == ";"
NoChar == "NUL"

QuoteChars == {SQ, DQ, BT}

\* the characters strings.TrimSpace removes that occur in the model's scripts
WhiteSpace == {" ", "\n", "\t", "\r"}

\* the bytes the enumerated scripts are made of
Alphabet == {"a", SEMI, SQ, DQ, BT, BS, " "}

\* the script of the documented example: SELECT 'a;b'; SELECT 2
ExampleScript ==
    <<"S","E","L","E","C","T"," ","'","a",";","b","'",";",
      " ","S","E","L","E","C","T"," ","2">>

ExampleFirst == <<"S","E","L","E","C","T"," ","'","a",";","b","'">>

ExampleSecond == <<"S","E","L","E","C","T"," ","2">>

SeqsUpTo(S, n) == UNION {[1..k -> S] : k \in 0..n}

Scripts == SeqsUpTo(Alphabet, MaxLen) \cup {ExampleScript}

-----------------------------------------------------------------------------
(* Errors and their messages *)

\* an error value: nil, or an error whose Error() text is msg
NilError == [isNil |-> TRUE, msg |-> <<>>]

Err(m) == [isNil |-> FALSE, msg |-> m]

UpperLetters ==
    <<"A","B","C","D","E","F","G","H","I","J","K","L","M","N","O","P","Q","R","S","T","U","V","W","X","Y","Z">>

LowerLetters ==
    <<"a","b","c","d","e","f","g","h","i","j","k","l","m","n","o","p","q","r","s","t","u","v","w","x","y","z">>

\* strings.ToLower, byte by byte
LowerByte(c) ==
    IF \E k \in 1..26 : UpperLetters[k] = c
    THEN LowerLetters[CHOOSE k \in 1..26 : UpperLetters[k] = c]
    ELSE c

ToLower(s) == [k \in 1..Len(s) |-> LowerByte(s[k])]

\* strings.Contains
Contains(s, substr) ==
    \E k \in 0..(Len(s) - Len(substr)) :
        SubSeq(s, k + 1, k + Len(substr)) = substr

\* the substrings the code and the specification name
P_driverBadConnection ==
    <<"d","r","i","v","e","r",":"," ","b","a","d"," ","c","o","n","n","e","c","t","i","o","n">>

P_badConnection ==
    <<"b","a","d"," ","c","o","n","n","e","c","t","i","o","n">>

P_invalidConnection ==
    <<"i","n","v","a","l","i","d"," ","c","o","n","n","e","c","t","i","o","n">>

P_brokenPipe ==
    <<"b","r","o","k","e","n"," ","p","i","p","e">>

P_connectionReset ==
    <<"c","o","n","n","e","c","t","i","o","n"," ","r","e","s","e","t">>

P_connectionRefused ==
    <<"c","o","n","n","e","c","t","i","o","n"," ","r","e","f","u","s","e","d">>

\* the pieces the enumerated error messages are made of
F_driver == <<"d","r","i","v","e","r",":"," ">>

F_bad == <<"b","a","d"," ">>

F_invalid == <<"i","n","v","a","l","i","d"," ">>

F_broken == <<"b","r","o","k","e","n"," ">>

F_Broken == <<"B","r","o","k","e","n"," ">>

F_pipe == <<"p","i","p","e">>

F_connection == <<"c","o","n","n","e","c","t","i","o","n">>

F_reset == <<" ","r","e","s","e","t">>

F_refused == <<" ","r","e","f","u","s","e","d">>

F_x == <<"x">>

Fragments ==
    {F_driver, F_bad, F_invalid, F_broken, F_Broken, F_pipe, F_connection, F_reset, F_refused, F_x}

RECURSIVE Concat(_)
Concat(fs) == IF fs = <<>> THEN <<>> ELSE Head(fs) \o Concat(Tail(fs))

\* the enumerated messages: up to MaxFrags fragments, concatenated
Messages == {Concat(fs) : fs \in SeqsUpTo(Fragments, MaxFrags)}

Errors == {NilError} \cup {Err(m) : m \in Messages}

-----------------------------------------------------------------------------
(* strings.TrimSpace *)

RECURSIVE TrimLeft(_)
TrimLeft(s) ==
    IF s # <<>> /\ Head(s) \in WhiteSpace THEN TrimLeft(Tail(s)) ELSE s

RECURSIVE TrimRight(_)
TrimRight(s) ==
    IF s # <<>> /\ s[Len(s)] \in WhiteSpace
    THEN TrimRight(SubSeq(s, 1, Len(s) - 1))
    ELSE s

TrimSpace(s) == TrimRight(TrimLeft(s))

-----------------------------------------------------------------------------
(* splitStatements, one action per iteration of its loop *)

SplitIdle ==
    /\ script = <<>>
    /\ i = 1
    /\ current = <<>>
    /\ inString = FALSE
    /\ stringChar = NoChar
    /\ statements = <<>>
    /\ spc = "idle"

SplitInit ==
    /\ script \in Scripts
    /\ i = 1
    /\ current = <<>>
    /\ inString = FALSE
    /\ stringChar = NoChar
    /\ statements = <<>>
    /\ spc = "scan"

\* line 304 without its test of the byte before
ClosesStringNoEscape(c, idx) == c = stringChar

\* line 304: the byte closes the literal when it is the active quote and the
\* byte before it is not a backslash

ClosesString(c, idx) ==
    c = stringChar /\ (idx = 1 \/ script[idx - 1] # BS)

\* lines 318-321: append the trimmed statement unless it is empty
AppendTrimmed(stmts, cur) ==
    IF TrimSpace(cur) # <<>> THEN Append(stmts, TrimSpace(cur)) ELSE stmts

\* lines 302-308
ScanInString ==
    /\ spc = "scan" /\ i <= Len(script)
    /\ inString
    /\ current' = Append(current, script[i])
    /\ inString' = ~ClosesString(script[i], i)
    /\ i' = i + 1
    /\ UNCHANGED <<script, stringChar, statements, spc>>
    /\ UNCHANGED notSplit

\* lines 310-315
ScanOpenQuote ==
    /\ spc = "scan" /\ i <= Len(script)
    /\ ~inString
    /\ script[i] \in QuoteChars
    /\ inString' = TRUE
    /\ stringChar' = script[i]
    /\ current' = Append(current, script[i])
    /\ i' = i + 1
    /\ UNCHANGED <<script, statements, spc>>
    /\ UNCHANGED notSplit

\* lines 317-324
ScanSemicolon ==
    /\ spc = "scan" /\ i <= Len(script)
    /\ ~inString
    /\ script[i] = SEMI
    /\ statements' = AppendTrimmed(statements, current)
    /\ current' = <<>>
    /\ i' = i + 1
    /\ UNCHANGED <<script, inString, stringChar, spc>>
    /\ UNCHANGED notSplit

\* line 326
ScanOther ==
    /\ spc = "scan" /\ i <= Len(script)
    /\ ~inString
    /\ script[i] \notin QuoteChars
    /\ script[i] # SEMI
    /\ current' = Append(current, script[i])
    /\ i' = i + 1
    /\ UNCHANGED <<script, inString, stringChar, statements, spc>>
    /\ UNCHANGED notSplit

\* lines 329-335 without the append of the last statement
SplitFinishDrop ==
    /\ spc = "scan" /\ i > Len(script)
    /\ spc' = "done"
    /\ UNCHANGED <<script, i, current, inString, stringChar, statements>>
    /\ UNCHANGED notSplit

\* lines 329-335
SplitFinish ==
    /\ spc = "scan" /\ i > Len(script)
    /\ statements' = AppendTrimmed(statements, current)
    /\ spc' = "done"
    /\ UNCHANGED <<script, i, current, inString, stringChar>>
    /\ UNCHANGED notSplit

SplitNext ==
    \/ ScanInString
    \/ ScanOpenQuote
    \/ ScanSemicolon
    \/ ScanOther
    \/ SplitFinish

-----------------------------------------------------------------------------
(* isRetryableError *)

\* lines 66-87 without the strings.ToLower of line 70
isRetryableErrorCaseSensitive(e) ==
    /\ ~e.isNil
    /\ \/ Contains(e.msg, P_driverBadConnection)
       \/ Contains(e.msg, P_invalidConnection)
       \/ Contains(e.msg, P_brokenPipe)
       \/ Contains(e.msg, P_connectionReset)

\* lines 66-87 with "connection refused" among the retryable substrings
isRetryableErrorRefused(e) ==
    /\ ~e.isNil
    /\ \/ Contains(ToLower(e.msg), P_driverBadConnection)
       \/ Contains(ToLower(e.msg), P_invalidConnection)
       \/ Contains(ToLower(e.msg), P_brokenPipe)
       \/ Contains(ToLower(e.msg), P_connectionReset)
       \/ Contains(ToLower(e.msg), P_connectionRefused)

\* lines 66-87 without the "broken pipe" test of lines 79-81
isRetryableErrorNoPipe(e) ==
    /\ ~e.isNil
    /\ \/ Contains(ToLower(e.msg), P_driverBadConnection)
       \/ Contains(ToLower(e.msg), P_invalidConnection)
       \/ Contains(ToLower(e.msg), P_connectionReset)

\* lines 66-87
isRetryableError(e) ==
    /\ ~e.isNil
    /\ LET errStr == ToLower(e.msg)
       IN  \/ Contains(errStr, P_driverBadConnection)
           \/ Contains(errStr, P_invalidConnection)
           \/ Contains(errStr, P_brokenPipe)
           \/ Contains(errStr, P_connectionReset)

ClassifyIdle ==
    /\ err = NilError
    /\ retryable = FALSE
    /\ cpc = "idle"

ClassifyInit ==
    /\ err \in Errors
    /\ retryable = FALSE
    /\ cpc = "call"

\* one call of isRetryableError
Classify ==
    /\ cpc = "call"
    /\ retryable' = isRetryableError(err)
    /\ cpc' = "done"
    /\ UNCHANGED err
    /\ UNCHANGED notClassify

ClassifyNext == Classify

-----------------------------------------------------------------------------
(* withRetry: backoff.Retry over the classified operation, with the         *)
(* exponential backoff of newServerRetryBackoff wrapped in the context      *)

\* line 56, in ms
serverRetryMaxElapsed == 30000

\* backoff.NewExponentialBackOff (line 59): initial interval 500 ms,
\* multiplier 1.5, randomization factor 0.5, maximum interval 60 s
InitialInterval == 500

MaxInterval == 60000

\* the error of a cancelled context, ctx.Err()
CtxCanceled == Err(<<"context canceled">>)

M_brokenPipe == F_broken \o F_pipe

M_BrokenPipe == F_Broken \o F_pipe

M_connectionRefused == F_connection \o F_refused

M_invalidConnectionRefused == F_invalid \o F_connection \o F_refused

\* the messages the modelled operations fail with
OpMessages ==
    {M_brokenPipe, M_BrokenPipe, M_connectionRefused,
     M_invalidConnectionRefused, F_x}

\* an operation returns error first on its first failures invocations (on
\* all of them when always holds) and final from then on
Operations ==
    [first : {Err(m) : m \in OpMessages},
     always : {FALSE},
     failures : 0..MaxFails,
     final : {NilError, Err(M_connectionRefused), Err(F_x)}]
    \cup {[first |-> Err(m), always |-> TRUE, failures |-> 0,
            final |-> Err(m)] : m \in OpMessages}

\* what invocation number n of the operation returns
OpOutcome(n) ==
    IF op.always \/ n <= op.failures THEN op.first ELSE op.final

\* an invocation returns at once or after OpSlow ms
OpDurations == {0, OpSlow}

\* line 101 without backoff.WithContext
CtxIgnored == FALSE

\* line 101: the backoff is wrapped with the caller's context
CtxAttached == TRUE

\* getRandomValueFromInterval at the two ends of its range, in
\* whole ms
RandomIntervals(cur) == {cur - cur \div 2, cur + cur \div 2}

\* incrementCurrentInterval, in whole ms
IncrementInterval(cur) ==
    IF 3 * cur >= 2 * MaxInterval THEN MaxInterval
    ELSE (3 * cur) \div 2

RetryIdle ==
    /\ op = [first |-> NilError, always |-> FALSE, failures |-> 0,
             final |-> NilError]
    /\ ctxDone = FALSE
    /\ rpc = "idle"
    /\ calls = 0
    /\ opErr = NilError
    /\ result = NilError
    /\ currentInterval = 0
    /\ elapsed = 0
    /\ next = 0
    /\ timerFired = FALSE

RetryInit ==
    /\ op \in Operations
    /\ ctxDone = FALSE
    /\ rpc = "start"
    /\ calls = 0
    /\ opErr = NilError
    /\ result = NilError
    /\ currentInterval = 0
    /\ elapsed = 0
    /\ next = 0
    /\ timerFired = FALSE

\* lines 91-92: a fresh backoff, reset as Retry starts
RetryBegin ==
    /\ rpc = "start"
    /\ currentInterval' = InitialInterval
    /\ elapsed' = 0
    /\ rpc' = "call"
    /\ UNCHANGED <<op, ctxDone, calls, opErr, result, next, timerFired>>
    /\ UNCHANGED notRetry

\* line 93: op is invoked
InvokeOp ==
    /\ rpc = "call"
    /\ calls' = calls + 1
    /\ rpc' = "inflight"
    /\ UNCHANGED <<op, ctxDone, opErr, result, currentInterval, elapsed,
                   next, timerFired>>
    /\ UNCHANGED notRetry

\* lines 93, 100: op returns nil, and so does Retry
OpSucceeds ==
    /\ rpc = "inflight"
    /\ OpOutcome(calls).isNil
    /\ \E d \in OpDurations : elapsed' = elapsed + d
    /\ opErr' = OpOutcome(calls)
    /\ result' = NilError
    /\ rpc' = "done"
    /\ UNCHANGED <<op, ctxDone, calls, currentInterval, next, timerFired>>
    /\ UNCHANGED notRetry

\* lines 93-96 with the classification of the first outcome kept and applied
\* to the later ones
OpFailsRetryableStored ==
    /\ rpc = "inflight"
    /\ ~OpOutcome(calls).isNil
    /\ isRetryableError(OpOutcome(1))
    /\ \E d \in OpDurations : elapsed' = elapsed + d
    /\ opErr' = OpOutcome(calls)
    /\ rpc' = "backoff"
    /\ UNCHANGED <<op, ctxDone, calls, result, currentInterval, next,
                   timerFired>>
    /\ UNCHANGED notRetry

\* lines 93-96: op returns a retryable error, handed to Retry as it is
OpFailsRetryable ==
    /\ rpc = "inflight"
    /\ ~OpOutcome(calls).isNil
    /\ isRetryableError(OpOutcome(calls))
    /\ \E d \in OpDurations : elapsed' = elapsed + d
    /\ opErr' = OpOutcome(calls)
    /\ rpc' = "backoff"
    /\ UNCHANGED <<op, ctxDone, calls, result, currentInterval, next,
                   timerFired>>
    /\ UNCHANGED notRetry

\* lines 97-99: op returns another error, wrapped as permanent; Retry
\* returns the wrapped error
OpFailsPermanent ==
    /\ rpc = "inflight"
    /\ ~OpOutcome(calls).isNil
    /\ ~isRetryableError(OpOutcome(calls))
    /\ \E d \in OpDurations : elapsed' = elapsed + d
    /\ opErr' = OpOutcome(calls)
    /\ result' = OpOutcome(calls)
    /\ rpc' = "done"
    /\ UNCHANGED <<op, ctxDone, calls, currentInterval, next, timerFired>>
    /\ UNCHANGED notRetry

\* NextBackOff of the context wrapper: Stop once the context is done, and
\* Retry returns the context's error
BackOffCtxStop ==
    /\ rpc = "backoff"
    /\ CtxAttached /\ ctxDone
    /\ result' = CtxCanceled
    /\ rpc' = "done"
    /\ UNCHANGED <<op, ctxDone, calls, opErr, currentInterval, elapsed,
                   next, timerFired>>
    /\ UNCHANGED notRetry

\* NextBackOff of the exponential backoff: Stop when the elapsed time plus
\* the next interval passes MaxElapsedTime, and Retry returns the last error
BackOffElapsedStop ==
    /\ rpc = "backoff"
    /\ ~(CtxAttached /\ ctxDone)
    /\ \E nx \in RandomIntervals(currentInterval) :
          /\ elapsed + nx > serverRetryMaxElapsed
          /\ next' = nx
    /\ currentInterval' = IncrementInterval(currentInterval)
    /\ result' = opErr
    /\ rpc' = "done"
    /\ UNCHANGED <<op, ctxDone, calls, opErr, elapsed, timerFired>>
    /\ UNCHANGED notRetry

\* NextBackOff gives an interval, and Retry starts its timer
BackOffSleep ==
    /\ rpc = "backoff"
    /\ ~(CtxAttached /\ ctxDone)
    /\ \E nx \in RandomIntervals(currentInterval) :
          /\ elapsed + nx <= serverRetryMaxElapsed
          /\ next' = nx
    /\ currentInterval' = IncrementInterval(currentInterval)
    /\ timerFired' = FALSE
    /\ rpc' = "sleep"
    /\ UNCHANGED <<op, ctxDone, calls, opErr, result, elapsed>>
    /\ UNCHANGED notRetry

\* the wait lasts as long as Retry's select has no ready case: time passes
\* until the timer expires
TimePasses ==
    /\ rpc = "sleep"
    /\ ~timerFired
    /\ ~(CtxAttached /\ ctxDone)
    /\ timerFired' = TRUE
    /\ elapsed' = elapsed + next
    /\ UNCHANGED <<op, ctxDone, rpc, calls, opErr, result, currentInterval,
                   next>>
    /\ UNCHANGED notRetry

\* the select takes the timer's case: the loop goes round
SelectTimer ==
    /\ rpc = "sleep"
    /\ timerFired
    /\ rpc' = "call"
    /\ UNCHANGED <<op, ctxDone, calls, opErr, result, currentInterval,
                   elapsed, next, timerFired>>
    /\ UNCHANGED notRetry

\* the select takes the context's case: Retry returns the context's error
SelectCtx ==
    /\ rpc = "sleep"
    /\ CtxAttached /\ ctxDone
    /\ result' = CtxCanceled
    /\ rpc' = "done"
    /\ UNCHANGED <<op, ctxDone, calls, opErr, currentInterval, elapsed,
                   next, timerFired>>
    /\ UNCHANGED notRetry

\* the caller cancels the context, at any moment before withRetry returns
Cancel ==
    /\ rpc \in {"start", "call", "inflight", "backoff", "sleep"}
    /\ ~ctxDone
    /\ ctxDone' = TRUE
    /\ UNCHANGED <<op, rpc, calls, opErr, result, currentInterval, elapsed,
                   next, timerFired>>
    /\ UNCHANGED notRetry

\* the steps of withRetry itself
RetryStep ==
    \/ RetryBegin
    \/ InvokeOp
    \/ OpSucceeds
    \/ OpFailsRetryable
    \/ OpFailsPermanent
    \/ BackOffCtxStop
    \/ BackOffElapsedStop
    \/ BackOffSleep
    \/ TimePasses
    \/ SelectTimer
    \/ SelectCtx

RetryNext == RetryStep \/ Cancel

-----------------------------------------------------------------------------
(* The store's lifecycle: Close, IsClosed, UnderlyingDB and UnderlyingConn, *)
(* called by goroutines that share the store                                *)

Procs == 1..NumProcs

Pool == "pool"

NilDB == "nil"

\* what Close on the pool may return: nil, context.Canceled, another error
PoolCloseErrors == {"nil", "context canceled", "close error"}

StoreIdle ==
    /\ db = NilDB
    /\ closed = FALSE
    /\ mu = 0
    /\ poolClosed = FALSE
    /\ poolReclosed = FALSE
    /\ crashed = FALSE
    /\ closeReturned = FALSE
    /\ gop = [p \in Procs |-> "none"]
    /\ gpc = [p \in Procs |-> "idle"]
    /\ glocal = [p \in Procs |-> "nil"]
    /\ gret = [p \in Procs |-> "none"]
    /\ gafter = [p \in Procs |-> FALSE]

\* lines 140-145: the store New returns
StoreInit ==
    /\ db = Pool
    /\ closed = FALSE
    /\ mu = 0
    /\ poolClosed = FALSE
    /\ poolReclosed = FALSE
    /\ crashed = FALSE
    /\ closeReturned = FALSE
    /\ gop = [p \in Procs |-> "none"]
    /\ gpc = [p \in Procs |-> "idle"]
    /\ glocal = [p \in Procs |-> "nil"]
    /\ gret = [p \in Procs |-> "none"]
    /\ gafter = [p \in Procs |-> FALSE]

\* goroutine p calls method m, entering it at position pc
Enter(p, m, pc) ==
    /\ ~crashed
    /\ gpc[p] = "idle"
    /\ gop' = [gop EXCEPT ![p] = m]
    /\ gpc' = [gpc EXCEPT ![p] = pc]
    /\ glocal' = [glocal EXCEPT ![p] = "nil"]
    /\ gret' = [gret EXCEPT ![p] = "none"]
    /\ gafter' = [gafter EXCEPT ![p] = closeReturned]
    /\ UNCHANGED <<db, closed, mu, poolClosed, poolReclosed, crashed,
                   closeReturned>>
    /\ UNCHANGED notStore

\* goroutine p is at position pc of the method it is in
At(p, pc) == ~crashed /\ gpc[p] = pc

\* line 361
CallClose(p) == Enter(p, "Close", "store")

\* line 362 left out: the flag is not stored
CloseStoreFlagSkipped(p) ==
    /\ At(p, "store")
    /\ gpc' = [gpc EXCEPT ![p] = "lock"]
    /\ UNCHANGED <<db, closed, mu, poolClosed, poolReclosed, crashed,
                   closeReturned, gop, glocal, gret, gafter>>
    /\ UNCHANGED notStore

\* line 362
CloseStoreFlag(p) ==
    /\ At(p, "store")
    /\ closed' = TRUE
    /\ gpc' = [gpc EXCEPT ![p] = "lock"]
    /\ UNCHANGED <<db, mu, poolClosed, poolReclosed, crashed, closeReturned,
                   gop, glocal, gret, gafter>>
    /\ UNCHANGED notStore

\* line 363
CloseLock(p) ==
    /\ At(p, "lock")
    /\ mu = 0
    /\ mu' = p
    /\ gpc' = [gpc EXCEPT ![p] = "check"]
    /\ UNCHANGED <<db, closed, poolClosed, poolReclosed, crashed,
                   closeReturned, gop, glocal, gret, gafter>>
    /\ UNCHANGED notStore

\* lines 366-372, s.db not nil: the pool is closed, and its error kept
\* unless it is context.Canceled
ClosePool(p) ==
    /\ At(p, "check")
    /\ db # NilDB
    /\ poolClosed' = TRUE
    /\ poolReclosed' = (poolReclosed \/ poolClosed)
    /\ \E cerr \in PoolCloseErrors :
          glocal' = [glocal EXCEPT
                       ![p] = IF cerr = "context canceled" THEN "nil" ELSE cerr]
    /\ gpc' = [gpc EXCEPT ![p] = "clear"]
    /\ UNCHANGED <<db, closed, mu, crashed, closeReturned, gop, gret, gafter>>
    /\ UNCHANGED notStore

\* line 366, s.db nil
CloseSkipPool(p) ==
    /\ At(p, "check")
    /\ db = NilDB
    /\ gpc' = [gpc EXCEPT ![p] = "clear"]
    /\ UNCHANGED <<db, closed, mu, poolClosed, poolReclosed, crashed,
                   closeReturned, gop, glocal, gret, gafter>>
    /\ UNCHANGED notStore

\* line 373 left out: s.db keeps the pool
CloseClearKeep(p) ==
    /\ At(p, "clear")
    /\ gpc' = [gpc EXCEPT ![p] = "return"]
    /\ UNCHANGED <<db, closed, mu, poolClosed, poolReclosed, crashed,
                   closeReturned, gop, glocal, gret, gafter>>
    /\ UNCHANGED notStore

\* line 373
CloseClear(p) ==
    /\ At(p, "clear")
    /\ db' = NilDB
    /\ gpc' = [gpc EXCEPT ![p] = "return"]
    /\ UNCHANGED <<closed, mu, poolClosed, poolReclosed, crashed,
                   closeReturned, gop, glocal, gret, gafter>>
    /\ UNCHANGED notStore

\* lines 374 and 364: err is returned and the lock released
CloseReturn(p) ==
    /\ At(p, "return")
    /\ gret' = [gret EXCEPT ![p] = glocal[p]]
    /\ mu' = 0
    /\ closeReturned' = TRUE
    /\ gpc' = [gpc EXCEPT ![p] = "idle"]
    /\ UNCHANGED <<db, closed, poolClosed, poolReclosed, crashed, gop,
                   glocal, gafter>>
    /\ UNCHANGED notStore

\* line 383
CallIsClosed(p) == Enter(p, "IsClosed", "load")

\* line 384
IsClosedLoad(p) ==
    /\ At(p, "load")
    /\ gret' = [gret EXCEPT ![p] = IF closed THEN "true" ELSE "false"]
    /\ gpc' = [gpc EXCEPT ![p] = "idle"]
    /\ UNCHANGED <<db, closed, mu, poolClosed, poolReclosed, crashed,
                   closeReturned, gop, glocal, gafter>>
    /\ UNCHANGED notStore

\* line 388
CallUnderlyingDB(p) == Enter(p, "UnderlyingDB", "read")

\* line 389: s.db is read, with no lock taken, and returned
UnderlyingDBRead(p) ==
    /\ At(p, "read")
    /\ gop[p] = "UnderlyingDB"
    /\ gret' = [gret EXCEPT ![p] = db]
    /\ gpc' = [gpc EXCEPT ![p] = "idle"]
    /\ UNCHANGED <<db, closed, mu, poolClosed, poolReclosed, crashed,
                   closeReturned, gop, glocal, gafter>>
    /\ UNCHANGED notStore

\* line 393
CallUnderlyingConn(p) == Enter(p, "UnderlyingConn", "read")

\* line 394, s.db read with no lock taken and found not nil
UnderlyingConnRead(p) ==
    /\ At(p, "read")
    /\ gop[p] = "UnderlyingConn"
    /\ db # NilDB
    /\ glocal' = [glocal EXCEPT ![p] = db]
    /\ gpc' = [gpc EXCEPT ![p] = "conn"]
    /\ UNCHANGED <<db, closed, mu, poolClosed, poolReclosed, crashed,
                   closeReturned, gop, gret, gafter>>
    /\ UNCHANGED notStore

\* line 394, s.db read and found nil: Conn on a nil *sql.DB dereferences it,
\* and the goroutine panics
UnderlyingConnPanic(p) ==
    /\ At(p, "read")
    /\ gop[p] = "UnderlyingConn"
    /\ db = NilDB
    /\ gret' = [gret EXCEPT ![p] = "panic: nil pointer dereference"]
    /\ crashed' = TRUE
    /\ gpc' = [gpc EXCEPT ![p] = "idle"]
    /\ UNCHANGED <<db, closed, mu, poolClosed, poolReclosed, closeReturned,
                   gop, glocal, gafter>>
    /\ UNCHANGED notStore

\* line 394, Conn on the pool: a connection or a network error while the
\* pool is open, the pool's own error once it is closed
UnderlyingConnConn(p) ==
    /\ At(p, "conn")
    /\ \E r \in IF poolClosed THEN {"sql: database is closed"}
                ELSE {"conn", "network error"} :
          gret' = [gret EXCEPT ![p] = r]
    /\ gpc' = [gpc EXCEPT ![p] = "idle"]
    /\ UNCHANGED <<db, closed, mu, poolClosed, poolReclosed, crashed,
                   closeReturned, gop, glocal, gafter>>
    /\ UNCHANGED notStore

StoreNext ==
    \E p \in Procs :
        \/ CallClose(p)
        \/ CloseStoreFlag(p)
        \/ CloseLock(p)
        \/ ClosePool(p)
        \/ CloseSkipPool(p)
        \/ CloseClear(p)
        \/ CloseReturn(p)
        \/ CallIsClosed(p)
        \/ IsClosedLoad(p)
        \/ CallUnderlyingDB(p)
        \/ UnderlyingDBRead(p)
        \/ CallUnderlyingConn(p)
        \/ UnderlyingConnRead(p)
        \/ UnderlyingConnPanic(p)
        \/ UnderlyingConnConn(p)

-----------------------------------------------------------------------------
(* New and openServerConnection *)

\* line 51
DefaultPort == 3306

\* lines 108-117: the default values
T_beads ==
    <<"b","e","a","d","s">>

T_localhost ==
    <<"1","2","7",".","0",".","0",".","1">>

T_root ==
    <<"r","o","o","t">>

\* values of the enumerated configurations
T_db ==
    <<"d","b">>

T_app ==
    <<"a","p","p">>

T_tracker ==
    <<"t","r","a","c","k","e","r">>

Configs ==
    [Host : {<<>>, T_db},
     Port : {0, 3307, 1007},
     User : {<<>>, T_app},
     Password : {"", "secret"},
     Database : {<<>>, T_tracker},
     ReadOnly : BOOLEAN]

Digits == <<"0","1","2","3","4","5","6","7","8","9">>

RECURSIVE Itoa(_)
\* the %d verb of fmt, for a non-negative number
Itoa(n) ==
    IF n < 10 THEN <<Digits[n + 1]>>
    ELSE Itoa(n \div 10) \o <<Digits[(n % 10) + 1]>>

\* what the driver reports when nothing listens at host:port
MsgDialRefused(host, port) ==
    <<"d","i","a","l"," ","t","c","p"," ">> \o host \o <<":">> \o Itoa(port) \o
    <<":"," ","c","o","n","n","e","c","t",":"," ","c","o","n","n","e","c",
      "t","i","o","n"," ","r","e","f","u","s","e","d">>

\* the server's error 1007
MsgDatabaseExists(database) ==
    <<"E","r","r","o","r"," ","1","0","0","7"," ","(","H","Y","0","0","0",
      ")",":"," ","C","a","n","'","t"," ","c","r","e","a","t","e"," ","d",
      "a","t","a","b","a","s","e"," ","'">> \o database \o
    <<"'",";"," ","d","a","t","a","b","a","s","e"," ","e","x","i","s","t","s">>

\* the server's error 1044
MsgAccessDenied(user, database) ==
    <<"E","r","r","o","r"," ","1","0","4","4"," ","(","4","2","0","0","0",
      ")",":"," ","A","c","c","e","s","s"," ","d","e","n","i","e","d"," ",
      "f","o","r"," ","u","s","e","r"," ","'">> \o user \o
    <<"'","@","'","%","'"," ","t","o"," ","d","a","t","a","b","a","s","e",
      " ","'">> \o database \o <<"'">>

\* the answer to a request: what it means to the server, and the text of
\* the error the driver hands to the program (the program sees the text only)
Answer(kind, msg) == [kind |-> kind, msg |-> msg]

NoAnswer == Answer("none", <<>>)

AnswerOK == Answer("ok", <<>>)

\* the server's OK to CREATE DATABASE IF NOT EXISTS when it created the
\* database: one row affected (none when the database was there)
AnswerCreated ==
    Answer("ok", <<"1"," ","r","o","w"," ","a","f","f","e","c","t","e","d">>)

\* the failures CREATE DATABASE IF NOT EXISTS can meet, for the server's
\* condition: unreachable, or reachable and refusing the request
CreateFailures ==
    IF ~serverUp
    THEN {Answer("refused", MsgDialRefused(cfg.Host, cfg.Port))}
    ELSE {Answer("denied", MsgAccessDenied(cfg.User, cfg.Database))}
         \cup (IF serverHasDB
               THEN {Answer("exists", MsgDatabaseExists(cfg.Database))}
               ELSE {})

\* line 201
P_databaseExists ==
    <<"d","a","t","a","b","a","s","e"," ","e","x","i","s","t","s">>

P_1007 ==
    <<"1","0","0","7">>

\* line 204
P_connectConnectionRefused ==
    <<"c","o","n","n","e","c","t",":"," ","c","o","n","n","e","c","t","i",
      "o","n"," ","r","e","f","u","s","e","d">>

\* line 201: the failure is taken to mean that the database exists
TreatedAsExists(msg) ==
    \/ Contains(ToLower(msg), P_databaseExists)
    \/ Contains(ToLower(msg), P_1007)

\* line 204: the failure is taken to mean that the server is not running
TreatedAsRefused(msg) ==
    \/ Contains(ToLower(msg), P_connectionRefused)
    \/ Contains(ToLower(msg), P_connectConnectionRefused)

\* what New hands back: a store or none, the error's leading text ("nil"
\* for no error), the host and port the error names, and the wrapped cause
Failed(e) ==
    [store |-> FALSE, err |-> e, host |-> <<>>, port |-> 0, cause |-> <<>>]

FailedAt(e, host, port, cause) ==
    [store |-> FALSE, err |-> e, host |-> host, port |-> port,
     cause |-> cause]

StoreReturned ==
    [store |-> TRUE, err |-> "nil", host |-> <<>>, port |-> 0,
     cause |-> <<>>]

NoReturn == Failed("none")

\* New is not running
NewAtRest ==
    /\ envPassword = ""
    /\ npc = "idle"
    /\ connStr = <<>>
    /\ primary = "none"
    /\ admin = "none"
    /\ pinged = "none"
    /\ schemaRun = "none"
    /\ nret = NoReturn
    /\ createResp = NoAnswer
    /\ ndb = "none"

NewIdle ==
    /\ cfg = [Host |-> <<>>, Port |-> 0, User |-> <<>>, Password |-> "",
              Database |-> <<>>, ReadOnly |-> FALSE]
    /\ serverUp = FALSE
    /\ serverHasDB = FALSE
    /\ NewAtRest

\* a server that holds the database, up or down, as the clients of the
\* default configuration find it
ServerRunning ==
    /\ cfg = [Host |-> T_localhost, Port |-> DefaultPort, User |-> T_root,
              Password |-> "", Database |-> T_beads, ReadOnly |-> FALSE]
    /\ serverUp \in BOOLEAN
    /\ serverHasDB = TRUE
    /\ NewAtRest

NewInit ==
    /\ cfg \in Configs
    /\ envPassword \in {"", "envsecret"}
    /\ serverUp \in BOOLEAN
    /\ serverHasDB \in BOOLEAN
    /\ npc = "defaults"
    /\ connStr = <<>>
    /\ primary = "none"
    /\ admin = "none"
    /\ pinged = "none"
    /\ schemaRun = "none"
    /\ nret = NoReturn
    /\ createResp = NoAnswer
    /\ ndb = "none"

\* lines 107-122: defaults for the unset fields
NewDefaults ==
    /\ npc = "defaults"
    /\ cfg' = [Host |-> IF cfg.Host = <<>> THEN T_localhost ELSE cfg.Host,
               Port |-> IF cfg.Port = 0 THEN DefaultPort ELSE cfg.Port,
               User |-> IF cfg.User = <<>> THEN T_root ELSE cfg.User,
               Password |-> IF cfg.Password = "" THEN envPassword
                            ELSE cfg.Password,
               Database |-> IF cfg.Database = <<>> THEN T_beads
                            ELSE cfg.Database,
               ReadOnly |-> cfg.ReadOnly]
    /\ npc' = "open"
    /\ UNCHANGED <<envPassword, serverUp, serverHasDB, connStr, primary,
                   admin, pinged, schemaRun, nret,
                   createResp, ndb>>
    /\ UNCHANGED notNew

\* lines 161-178: the primary pool is opened, unvalidated
OpenPrimary ==
    /\ npc = "open"
    /\ connStr' = <<cfg.User, cfg.Password, cfg.Host, cfg.Port, cfg.Database>>
    /\ primary' = "open"
    /\ npc' = "initopen"
    /\ UNCHANGED <<cfg, envPassword, serverUp, serverHasDB, admin, pinged,
                   schemaRun, nret,
                   createResp, ndb>>
    /\ UNCHANGED notNew

\* lines 170-173 and 125-128: sql.Open fails
OpenPrimaryFails ==
    /\ npc = "open"
    /\ nret' = Failed("failed to open MariaDB server connection")
    /\ npc' = "returned"
    /\ UNCHANGED <<cfg, envPassword, serverUp, serverHasDB, connStr, primary,
                   admin, pinged, schemaRun,
                   createResp, ndb>>
    /\ UNCHANGED notNew

\* lines 182-195: the administrative pool is opened, no database selected
OpenAdmin ==
    /\ npc = "initopen"
    /\ admin' = "open"
    /\ npc' = "createdb"
    /\ UNCHANGED <<cfg, envPassword, serverUp, serverHasDB, connStr, primary,
                   pinged, schemaRun, nret,
                   createResp, ndb>>
    /\ UNCHANGED notNew

\* lines 190-194 and 125-128: sql.Open of the administrative pool fails
OpenAdminFails ==
    /\ npc = "initopen"
    /\ primary' = "closed"
    /\ nret' = Failed("failed to open init connection")
    /\ npc' = "returned"
    /\ UNCHANGED <<cfg, envPassword, serverUp, serverHasDB, connStr, admin,
                   pinged, schemaRun,
                   createResp, ndb>>
    /\ UNCHANGED notNew

\* lines 197, 213 and 195 with the request left out for a read-only store
CreateDatabaseUnlessReadOnly ==
    /\ npc = "createdb"
    /\ serverUp
    /\ createResp' = IF cfg.ReadOnly THEN createResp
                     ELSE IF serverHasDB THEN AnswerOK ELSE AnswerCreated
    /\ serverHasDB' = (serverHasDB \/ ~cfg.ReadOnly)
    /\ admin' = "closed"
    /\ ndb' = "primary"
    /\ npc' = "ping"
    /\ UNCHANGED <<cfg, envPassword, serverUp, connStr, primary, pinged,
                   schemaRun, nret>>
    /\ UNCHANGED notNew

\* lines 197, 213 and 195: CREATE DATABASE IF NOT EXISTS succeeds
CreateDatabaseOK ==
    /\ npc = "createdb"
    /\ serverUp
    /\ createResp' = IF serverHasDB THEN AnswerOK ELSE AnswerCreated
    /\ serverHasDB' = TRUE
    /\ admin' = "closed"
    /\ ndb' = "primary"
    /\ npc' = "ping"
    /\ UNCHANGED <<cfg, envPassword, serverUp, connStr, primary, pinged,
                   schemaRun, nret>>
    /\ UNCHANGED notNew

\* lines 197-201, 210-213 and 195: the request fails and the failure's text
\* holds "database exists" or "1007"
CreateDatabaseExists ==
    /\ npc = "createdb"
    /\ \E r \in CreateFailures :
          /\ TreatedAsExists(r.msg)
          /\ createResp' = r
    /\ admin' = "closed"
    /\ ndb' = "primary"
    /\ npc' = "ping"
    /\ UNCHANGED <<cfg, envPassword, serverUp, serverHasDB, connStr, primary,
                   pinged, schemaRun, nret>>
    /\ UNCHANGED notNew

\* lines 197-207, 195 and 125-128: the failure's text holds "connection
\* refused"
CreateDatabaseRefused ==
    /\ npc = "createdb"
    /\ \E r \in CreateFailures :
          /\ ~TreatedAsExists(r.msg)
          /\ TreatedAsRefused(r.msg)
          /\ createResp' = r
          /\ nret' = FailedAt("failed to connect to MariaDB server at",
                              cfg.Host, cfg.Port, r.msg)
    /\ primary' = "closed"
    /\ admin' = "closed"
    /\ npc' = "returned"
    /\ UNCHANGED <<cfg, envPassword, serverUp, serverHasDB, connStr, pinged,
                   schemaRun, ndb>>
    /\ UNCHANGED notNew

\* lines 197-202, 208 and 125-128 without the deferred initDB.Close of
\* line 195
CreateDatabaseFailsKeepsAdmin ==
    /\ npc = "createdb"
    /\ \E r \in CreateFailures :
          /\ ~TreatedAsExists(r.msg)
          /\ ~TreatedAsRefused(r.msg)
          /\ createResp' = r
          /\ nret' = FailedAt("failed to create database", <<>>, 0, r.msg)
    /\ primary' = "closed"
    /\ npc' = "returned"
    /\ UNCHANGED <<cfg, envPassword, serverUp, serverHasDB, connStr, pinged,
                   schemaRun, ndb, admin>>
    /\ UNCHANGED notNew

\* lines 197-202, 208, 195 and 125-128: the request fails otherwise
CreateDatabaseFails ==
    /\ npc = "createdb"
    /\ \E r \in CreateFailures :
          /\ ~TreatedAsExists(r.msg)
          /\ ~TreatedAsRefused(r.msg)
          /\ createResp' = r
          /\ nret' = FailedAt("failed to create database", <<>>, 0, r.msg)
    /\ primary' = "closed"
    /\ admin' = "closed"
    /\ npc' = "returned"
    /\ UNCHANGED <<cfg, envPassword, serverUp, serverHasDB, connStr, pinged,
                   schemaRun, ndb>>
    /\ UNCHANGED notNew

\* line 135: the ping succeeds, on a connection the server accepts for the
\* database the primary pool names
PingOK ==
    /\ npc = "ping"
    /\ serverUp
    /\ serverHasDB
    /\ pinged' = "ok"
    /\ npc' = "schema"
    /\ UNCHANGED <<cfg, envPassword, serverUp, serverHasDB, connStr, primary,
                   admin, schemaRun, nret,
                   createResp, ndb>>
    /\ UNCHANGED notNew

\* lines 135-138 without the db.Close of line 136
PingFailsLeak ==
    /\ npc = "ping"
    /\ pinged' = "failed"
    /\ nret' = Failed("failed to ping MariaDB database")
    /\ npc' = "returned"
    /\ UNCHANGED <<cfg, envPassword, serverUp, serverHasDB, connStr, primary,
                   admin, schemaRun,
                   createResp, ndb>>
    /\ UNCHANGED notNew

\* lines 135-138: the ping fails
PingFails ==
    /\ npc = "ping"
    /\ pinged' = "failed"
    /\ primary' = "closed"
    /\ nret' = Failed("failed to ping MariaDB database")
    /\ npc' = "returned"
    /\ UNCHANGED <<cfg, envPassword, serverUp, serverHasDB, connStr, admin,
                   schemaRun,
                   createResp, ndb>>
    /\ UNCHANGED notNew

\* lines 148 and 154: read-only, no schema initialization
NewReadOnly ==
    /\ npc = "schema"
    /\ cfg.ReadOnly
    /\ nret' = StoreReturned
    /\ npc' = "returned"
    /\ UNCHANGED <<cfg, envPassword, serverUp, serverHasDB, connStr, primary,
                   admin, pinged, schemaRun,
                   createResp, ndb>>
    /\ UNCHANGED notNew

\* lines 149 and 154: initSchema has returned nil
NewSchemaOK ==
    /\ npc = "inschema"
    /\ mpc[1] = "done"
    /\ merr[1].isNil
    /\ schemaRun' = "ok"
    /\ nret' = StoreReturned
    /\ npc' = "returned"
    /\ UNCHANGED <<cfg, envPassword, serverUp, serverHasDB, connStr, primary,
                   admin, pinged,
                   createResp, ndb>>
    /\ UNCHANGED notNew

\* lines 149-151: initSchema has returned an error
NewSchemaFails ==
    /\ npc = "inschema"
    /\ mpc[1] = "done"
    /\ ~merr[1].isNil
    /\ schemaRun' = "failed"
    /\ nret' = Failed("failed to initialize schema")
    /\ npc' = "returned"
    /\ UNCHANGED <<cfg, envPassword, serverUp, serverHasDB, connStr, primary,
                   admin, pinged,
                   createResp, ndb>>
    /\ UNCHANGED notNew

\* the server goes down or comes up while New or a client's run of schema
\* evolution is under way
ServerFlips ==
    /\ \/ npc \in {"open", "initopen", "createdb", "ping", "schema",
                   "inschema"}
       \/ \E c \in Clients : mpc[c] \notin {"idle", "done"}
    /\ serverUp' = ~serverUp
    /\ UNCHANGED <<cfg, envPassword, serverHasDB, npc, connStr, primary,
                   admin, pinged, schemaRun, nret,
                   createResp, ndb>>
    /\ UNCHANGED notNew

-----------------------------------------------------------------------------
(* Schema evolution: initSchemaOnDB, RunMigrations and the two migrations, *)
(* run by client processes against one database                            *)

\* ---- the statements the code holds (store.go 251, 264; migrations.go)

\* store.go line 251
S_indexIssueType ==
    <<"C","R","E","A","T","E"," ","I","N","D","E","X"," ","i","d","x","_",
      "i","s","s","u","e","s","_","i","s","s","u","e","_","t","y","p","e",
      " ","O","N"," ","i","s","s","u","e","s","(","i","s","s","u","e","_",
      "t","y","p","e",")">>

\* store.go line 264
S_dropForeignKey ==
    <<"A","L","T","E","R"," ","T","A","B","L","E"," ","d","e","p","e","n",
      "d","e","n","c","i","e","s"," ","D","R","O","P"," ","F","O","R","E",
      "I","G","N"," ","K","E","Y"," ","f","k","_","d","e","p","_","d","e",
      "p","e","n","d","s","_","o","n">>

\* migrations.go lines 48-54
Q_wispType ==
    <<"\n","\t","\t","S","E","L","E","C","T"," ","C","O","U","N","T","(","*",
      ")"," ","\n","\t","\t","F","R","O","M"," ","i","n","f","o","r","m","a",
      "t","i","o","n","_","s","c","h","e","m","a",".","c","o","l","u","m",
      "n","s"," ","\n","\t","\t","W","H","E","R","E"," ","t","a","b","l","e",
      "_","s","c","h","e","m","a"," ","="," ","D","A","T","A","B","A","S",
      "E","(",")"," ","\n","\t","\t","A","N","D"," ","t","a","b","l","e","_",
      "n","a","m","e"," ","="," ","'","i","s","s","u","e","s","'"," ","\n",
      "\t","\t","A","N","D"," ","c","o","l","u","m","n","_","n","a","m","e",
      " ","="," ","'","w","i","s","p","_","t","y","p","e","'","\n","\t">>

\* migrations.go line 62
S_addWispType ==
    <<"A","L","T","E","R"," ","T","A","B","L","E"," ","i","s","s","u","e",
      "s"," ","A","D","D"," ","C","O","L","U","M","N"," ","w","i","s","p",
      "_","t","y","p","e"," ","V","A","R","C","H","A","R","(","3","2",")",
      " ","D","E","F","A","U","L","T"," ","'","'">>

\* migrations.go lines 73-79
Q_specID ==
    <<"\n","\t","\t","S","E","L","E","C","T"," ","C","O","U","N","T","(","*",
      ")"," ","\n","\t","\t","F","R","O","M"," ","i","n","f","o","r","m","a",
      "t","i","o","n","_","s","c","h","e","m","a",".","c","o","l","u","m",
      "n","s"," ","\n","\t","\t","W","H","E","R","E"," ","t","a","b","l","e",
      "_","s","c","h","e","m","a"," ","="," ","D","A","T","A","B","A","S",
      "E","(",")"," ","\n","\t","\t","A","N","D"," ","t","a","b","l","e","_",
      "n","a","m","e"," ","="," ","'","i","s","s","u","e","s","'"," ","\n",
      "\t","\t","A","N","D"," ","c","o","l","u","m","n","_","n","a","m","e",
      " ","="," ","'","s","p","e","c","_","i","d","'","\n","\t">>

\* migrations.go line 87
S_addSpecID ==
    <<"A","L","T","E","R"," ","T","A","B","L","E"," ","i","s","s","u","e",
      "s"," ","A","D","D"," ","C","O","L","U","M","N"," ","s","p","e","c",
      "_","i","d"," ","V","A","R","C","H","A","R","(","1","0","2","4",")">>

\* migrations.go line 93
S_indexSpecID ==
    <<"C","R","E","A","T","E"," ","I","N","D","E","X"," ","i","d","x","_",
      "i","s","s","u","e","s","_","s","p","e","c","_","i","d"," ","O","N",
      " ","i","s","s","u","e","s","(","s","p","e","c","_","i","d",")">>

\* ---- the scripts and views the code refers to and does not hold: a
\* baseline of idempotent table definitions with comment lines, a seed of
\* idempotent inserts, and views created idempotently

K_tableIssues ==
    <<"C","R","E","A","T","E"," ","T","A","B","L","E"," ","I","F"," ","N",
      "O","T"," ","E","X","I","S","T","S"," ","i","s","s","u","e","s">>

K_tableDependencies ==
    <<"C","R","E","A","T","E"," ","T","A","B","L","E"," ","I","F"," ","N",
      "O","T"," ","E","X","I","S","T","S"," ","d","e","p","e","n","d","e",
      "n","c","i","e","s">>

K_tableConfig ==
    <<"C","R","E","A","T","E"," ","T","A","B","L","E"," ","I","F"," ","N",
      "O","T"," ","E","X","I","S","T","S"," ","c","o","n","f","i","g">>

K_insertConfig ==
    <<"I","N","S","E","R","T"," ","I","G","N","O","R","E"," ","I","N","T",
      "O"," ","c","o","n","f","i","g">>

BaselineScript ==
    <<"-","-"," ","e","n","t","i","t","i","e","s","\n","C","R","E","A","T",
      "E"," ","T","A","B","L","E"," ","I","F"," ","N","O","T"," ","E","X",
      "I","S","T","S"," ","i","s","s","u","e","s"," ","(","i","d"," ","I",
      "N","T",")",";","\n","-","-"," ","e","d","g","e","s","\n","C","R","E",
      "A","T","E"," ","T","A","B","L","E"," ","I","F"," ","N","O","T"," ",
      "E","X","I","S","T","S"," ","d","e","p","e","n","d","e","n","c","i",
      "e","s"," ","(","i","d"," ","I","N","T",")",";","\n","C","R","E","A",
      "T","E"," ","T","A","B","L","E"," ","I","F"," ","N","O","T"," ","E",
      "X","I","S","T","S"," ","c","o","n","f","i","g"," ","(","k"," ","I",
      "N","T",")",";","\n","-","-"," ","e","n","d","\n">>

SeedScript ==
    <<"-","-"," ","d","e","f","a","u","l","t","s","\n","I","N","S","E","R",
      "T"," ","I","G","N","O","R","E"," ","I","N","T","O"," ","c","o","n",
      "f","i","g"," ","V","A","L","U","E","S"," ","(","1",")",";","\n","-",
      "-"," ","e","n","d"," ","o","f"," ","d","e","f","a","u","l","t","s",
      "\n">>

readyIssuesView ==
    <<"C","R","E","A","T","E"," ","O","R"," ","R","E","P","L","A","C","E",
      " ","V","I","E","W"," ","r","e","a","d","y","_","i","s","s","u","e",
      "s"," ","A","S"," ","S","E","L","E","C","T"," ","i","d"," ","F","R",
      "O","M"," ","i","s","s","u","e","s">>

blockedIssuesView ==
    <<"C","R","E","A","T","E"," ","O","R"," ","R","E","P","L","A","C","E",
      " ","V","I","E","W"," ","b","l","o","c","k","e","d","_","i","s","s",
      "u","e","s"," ","A","S"," ","S","E","L","E","C","T"," ","i","d"," ",
      "F","R","O","M"," ","i","s","s","u","e","s">>

\* the bytes the enumerated baseline and seed scripts are made of
ScriptAlphabet == {"a", "-", "\n", SEMI, " "}

FilterScripts == SeqsUpTo(ScriptAlphabet, MaxScript)

\* ---- the pure helpers of store.go

\* the least member of a non-empty set of positions
First(S) == CHOOSE x \in S : \A y \in S : x <= y

RECURSIVE SplitFrom(_, _, _, _)
\* lines 299-335: the scan loop, outside any literal at byte k of a
\* statement that began at byte start. Every byte but a separating
\* semicolon is copied to current, so the loop is followed from one quote
\* or semicolon to the next: a semicolon ends the statement (lines 317-324);
\* a quote opens a literal (lines 310-315) that lasts to the first later
\* byte equal to it whose predecessor is no backslash (line 304), or to the
\* end of the script; the rest is the last statement (lines 330-333)
SplitFrom(s, start, k, stmts) ==
    LET marks == {p \in k..Len(s) : s[p] \in QuoteChars \cup {SEMI}} IN
    IF marks = {} THEN AppendTrimmed(stmts, SubSeq(s, start, Len(s)))
    ELSE LET p == First(marks)
             closes == {q \in (p + 1)..Len(s) : s[q] = s[p] /\ s[q - 1] # BS}
         IN  IF s[p] = SEMI
             THEN SplitFrom(s, p + 1, p + 1,
                            AppendTrimmed(stmts, SubSeq(s, start, p - 1)))
             ELSE IF closes = {}
             THEN AppendTrimmed(stmts, SubSeq(s, start, Len(s)))
             ELSE SplitFrom(s, start, First(closes) + 1, stmts)

\* lines 293-336, as one value
splitStatements(s) == SplitFrom(s, 1, 1, <<>>)

\* line 340
TruncateAt == 100

\* lines 339-344
truncateForError(s) ==
    IF Len(s) > TruncateAt
    THEN SubSeq(s, 1, TruncateAt) \o <<".", ".", ".">>
    ELSE s

RECURSIVE SplitLines(_)
\* strings.Split(stmt, "\n"): the text before the first newline, then the
\* lines of the text after it
SplitLines(s) ==
    LET breaks == {p \in 1..Len(s) : s[p] = "\n"} IN
    IF breaks = {} THEN <<s>>
    ELSE <<SubSeq(s, 1, First(breaks) - 1)>>
         \o SplitLines(SubSeq(s, First(breaks) + 1, Len(s)))

\* strings.HasPrefix(line, "--")
HasDashPrefix(line) == Len(line) >= 2 /\ line[1] = "-" /\ line[2] = "-"

RECURSIVE OnlyCommentLines(_)
\* lines 349-357: the loop over the lines, stopping at the first line that
\* is neither empty nor a comment
OnlyCommentLines(lines) ==
    IF lines = <<>> THEN TRUE
    ELSE IF TrimSpace(Head(lines)) = <<>>
            \/ HasDashPrefix(TrimSpace(Head(lines)))
    THEN OnlyCommentLines(Tail(lines))
    ELSE FALSE

\* lines 347-358 with the first line alone looked at
isOnlyCommentsFirstLine(stmt) ==
    OnlyCommentLines(<<Head(SplitLines(stmt))>>)

\* lines 347-358
isOnlyComments(stmt) == OnlyCommentLines(SplitLines(stmt))

\* ---- the database server: what it answers to a statement, and what the
\* statement does to the objects the database holds

MsgNoTableIssues ==
    <<"E","r","r","o","r"," ","1","1","4","6"," ","(","4","2","S","0","2",
      ")",":"," ","T","a","b","l","e"," ","'","i","s","s","u","e","s","'",
      " ","d","o","e","s","n","'","t"," ","e","x","i","s","t">>

MsgNoTableDependencies ==
    <<"E","r","r","o","r"," ","1","1","4","6"," ","(","4","2","S","0","2",
      ")",":"," ","T","a","b","l","e"," ","'","d","e","p","e","n","d","e",
      "n","c","i","e","s","'"," ","d","o","e","s","n","'","t"," ","e","x",
      "i","s","t">>

MsgNoTableConfig ==
    <<"E","r","r","o","r"," ","1","1","4","6"," ","(","4","2","S","0","2",
      ")",":"," ","T","a","b","l","e"," ","'","c","o","n","f","i","g","'",
      " ","d","o","e","s","n","'","t"," ","e","x","i","s","t">>

MsgDupKeyIssueType ==
    <<"E","r","r","o","r"," ","1","0","6","1"," ","(","4","2","0","0","0",
      ")",":"," ","D","u","p","l","i","c","a","t","e"," ","k","e","y"," ",
      "n","a","m","e"," ","'","i","d","x","_","i","s","s","u","e","s","_",
      "i","s","s","u","e","_","t","y","p","e","'">>

MsgDupKeySpecID ==
    <<"E","r","r","o","r"," ","1","0","6","1"," ","(","4","2","0","0","0",
      ")",":"," ","D","u","p","l","i","c","a","t","e"," ","k","e","y"," ",
      "n","a","m","e"," ","'","i","d","x","_","i","s","s","u","e","s","_",
      "s","p","e","c","_","i","d","'">>

MsgDupColumnWispType ==
    <<"E","r","r","o","r"," ","1","0","6","0"," ","(","4","2","S","2","1",
      ")",":"," ","D","u","p","l","i","c","a","t","e"," ","c","o","l","u",
      "m","n"," ","n","a","m","e"," ","'","w","i","s","p","_","t","y","p",
      "e","'">>

MsgDupColumnSpecID ==
    <<"E","r","r","o","r"," ","1","0","6","0"," ","(","4","2","S","2","1",
      ")",":"," ","D","u","p","l","i","c","a","t","e"," ","c","o","l","u",
      "m","n"," ","n","a","m","e"," ","'","s","p","e","c","_","i","d","'">>

MsgCantDrop ==
    <<"E","r","r","o","r"," ","1","0","9","1"," ","(","4","2","0","0","0",
      ")",":"," ","C","a","n","'","t"," ","D","R","O","P"," ","F","O","R",
      "E","I","G","N"," ","K","E","Y"," ",BT,"f","k","_","d","e","p","_","d",
      "e","p","e","n","d","s","_","o","n",BT,";"," ","c","h","e","c","k"," ",
      "t","h","a","t"," ","i","t"," ","e","x","i","s","t","s">>

MsgNoKeyColumn ==
    <<"E","r","r","o","r"," ","1","0","7","2"," ","(","4","2","0","0","0",
      ")",":"," ","K","e","y"," ","c","o","l","u","m","n"," ","'","s","p",
      "e","c","_","i","d","'"," ","d","o","e","s","n","'","t"," ","e","x",
      "i","s","t"," ","i","n"," ","t","a","b","l","e">>

MsgSyntax ==
    <<"E","r","r","o","r"," ","1","0","6","4"," ","(","4","2","0","0","0",
      ")",":"," ","Y","o","u"," ","h","a","v","e"," ","a","n"," ","e","r",
      "r","o","r"," ","i","n"," ","y","o","u","r"," ","S","Q","L"," ","s",
      "y","n","t","a","x">>

\* one outcome of a statement: the answer, the objects afterwards, and the
\* number a COUNT(*) query yields
Outcome(answer, objects, count) ==
    [answer |-> answer, objects |-> objects, count |-> count]

Accepts(O) == {Outcome(AnswerOK, O, 0)}

\* ADD COLUMN of a column col of the table issues
AddsColumn(col, dupMsg, O) ==
    IF "issues" \notin O
    THEN {Outcome(Answer("notable", MsgNoTableIssues), O, 0)}
    ELSE IF col \in O
    THEN {Outcome(Answer("dupcolumn", dupMsg), O, 0)}
    ELSE Accepts(O \cup {col})

\* CREATE INDEX idx on a column col of the table issues; "" is a column
\* every issues table has
CreatesIndex(idx, col, dupMsg, O) ==
    IF "issues" \notin O
    THEN {Outcome(Answer("notable", MsgNoTableIssues), O, 0)}
    ELSE IF col # "" /\ col \notin O
    THEN {Outcome(Answer("nocolumn", MsgNoKeyColumn), O, 0)}
    ELSE IF idx \in O
    THEN {Outcome(Answer("dupkey", dupMsg), O, 0)}
    ELSE Accepts(O \cup {idx})

\* CREATE OR REPLACE VIEW v over the table issues
CreatesView(v, O) ==
    IF "issues" \notin O
    THEN {Outcome(Answer("notable", MsgNoTableIssues), O, 0)}
    ELSE Accepts(O \cup {v})

\* SELECT COUNT(*) of the catalog's rows for a column of issues
CountsColumn(col, O) ==
    {Outcome(AnswerOK, O, IF col \in O THEN 1 ELSE 0)}

\* the outcomes the server can give to stmt when the database holds the
\* objects O: none but a refused connection while it is down, and what the
\* statement means while it is up
ServerOutcomes(stmt, O) ==
    IF ~serverUp
    THEN {Outcome(Answer("refused", MsgDialRefused(cfg.Host, cfg.Port)),
                  O, 0)}
    ELSE IF stmt = S_indexIssueType
    THEN CreatesIndex("idx_issues_issue_type", "", MsgDupKeyIssueType, O)
    ELSE IF stmt = S_dropForeignKey
    THEN IF "dependencies" \notin O
         THEN {Outcome(Answer("notable", MsgNoTableDependencies), O, 0)}
         ELSE IF "fk_dep_depends_on" \notin O
         THEN {Outcome(Answer("noconstraint", MsgCantDrop), O, 0)}
         ELSE Accepts(O \ {"fk_dep_depends_on"})
    ELSE IF stmt = readyIssuesView THEN CreatesView("ready_issues", O)
    ELSE IF stmt = blockedIssuesView THEN CreatesView("blocked_issues", O)
    ELSE IF stmt = Q_wispType THEN CountsColumn("issues.wisp_type", O)
    ELSE IF stmt = Q_specID THEN CountsColumn("issues.spec_id", O)
    ELSE IF stmt = S_addWispType
    THEN AddsColumn("issues.wisp_type", MsgDupColumnWispType, O)
    ELSE IF stmt = S_addSpecID
    THEN AddsColumn("issues.spec_id", MsgDupColumnSpecID, O)
    ELSE IF stmt = S_indexSpecID
    THEN CreatesIndex("idx_issues_spec_id", "issues.spec_id",
                      MsgDupKeySpecID, O)
    ELSE IF Contains(stmt, K_tableIssues) THEN Accepts(O \cup {"issues"})
    ELSE IF Contains(stmt, K_tableDependencies)
    THEN Accepts(O \cup {"dependencies"})
    ELSE IF Contains(stmt, K_tableConfig) THEN Accepts(O \cup {"config"})
    ELSE IF Contains(stmt, K_insertConfig)
    THEN IF "config" \in O THEN Accepts(O \cup {"config.row"})
         ELSE {Outcome(Answer("notable", MsgNoTableConfig), O, 0)}
    ELSE Accepts(O) \cup {Outcome(Answer("syntax", MsgSyntax), O, 0)}

\* the objects of a database no client has touched, of one an earlier
\* version of the program has set up (with the foreign key the baseline
\* then declared), and of one this version has set up
FreshObjects == {}

LegacyObjects ==
    {"issues", "dependencies", "config", "config.row", "fk_dep_depends_on"}

CurrentObjects ==
    {"issues", "dependencies", "config", "config.row",
     "idx_issues_issue_type", "ready_issues", "blocked_issues",
     "issues.wisp_type", "issues.spec_id", "idx_issues_spec_id"}

\* ---- errors of schema evolution: the chain of fmt.Errorf wrappers
\* (outermost first), the text of the cause, and the statement quoted

NoErr == [isNil |-> TRUE, ctx |-> <<>>, cause |-> <<>>, stmt |-> <<>>]

Wrapper(format, name) == [format |-> format, name |-> name]

Failure(format, msg, stmt) ==
    [isNil |-> FALSE, ctx |-> <<Wrapper(format, "")>>, cause |-> msg,
     stmt |-> stmt]

\* store.go lines 255-256 and migrations.go lines 94-95
IndexErrorIgnored(msg) ==
    \/ Contains(ToLower(msg), <<"d","u","p","l","i","c","a","t","e">>)
    \/ Contains(ToLower(msg),
                <<"a","l","r","e","a","d","y"," ","e","x","i","s","t","s">>)

\* store.go lines 265-268
DropErrorIgnored(msg) ==
    \/ Contains(ToLower(msg), <<"c","a","n","'","t"," ","d","r","o","p">>)
    \/ Contains(ToLower(msg),
                <<"d","o","e","s","n","'","t"," ","e","x","i","s","t">>)
    \/ Contains(ToLower(msg),
                <<"c","h","e","c","k"," ","t","h","a","t"," ","i","t"," ",
                  "e","x","i","s","t","s">>)
    \/ Contains(ToLower(msg),
                <<"w","a","s"," ","n","o","t"," ","f","o","u","n","d">>)

\* migrations.go lines 63 and 88
ColumnErrorIgnored(msg) ==
    Contains(ToLower(msg),
             <<"d","u","p","l","i","c","a","t","e"," ","c","o","l","u","m",
               "n">>)

\* migrations.go lines 18-21
migrationsList ==
    <<[Name |-> "wisp_type_column", Func |-> "migrateWispTypeColumn"],
      [Name |-> "spec_id_column", Func |-> "migrateSpecIDColumn"]>>

\* ---- the clients

NoClientState ==
    /\ mtop = [c \in Clients |-> "none"]
    /\ mpc = [c \in Clients |-> "idle"]
    /\ frags = [c \in Clients |-> <<>>]
    /\ midx = [c \in Clients |-> 0]
    /\ mcalls = [c \in Clients |-> <<>>]
    /\ mlog = [c \in Clients |-> <<>>]
    /\ merr = [c \in Clients |-> NoErr]
    /\ mprev = [c \in Clients |-> <<>>]

\* the scripts the program is built with
ScriptsOfTheProgram ==
    /\ schema = BaselineScript
    /\ defaultConfig = SeedScript

SchemaIdle ==
    /\ schema = <<>>
    /\ defaultConfig = <<>>
    /\ dbObjects = {}
    /\ NoClientState

\* a client may start a run when it has made none, or has returned from
\* one and has runs left
CanStart(c) ==
    \/ mpc[c] = "idle"
    \/ mpc[c] = "done" /\ Len(mprev[c]) + 1 < MaxRuns

\* the start of a run of the function top at position pc
Begin(c, top, pc) ==
    /\ CanStart(c)
    /\ mtop' = [mtop EXCEPT ![c] = top]
    /\ mpc' = [mpc EXCEPT ![c] = pc]
    /\ midx' = [midx EXCEPT ![c] = 1]
    /\ mcalls' = [mcalls EXCEPT ![c] = <<>>]
    /\ mlog' = [mlog EXCEPT ![c] = <<>>]
    /\ merr' = [merr EXCEPT ![c] = NoErr]
    /\ mprev' = [mprev EXCEPT ![c] =
                    IF mpc[c] = "done" THEN Append(@, merr[c]) ELSE @]

Submitted(c, phase, stmt, answer) ==
    [mlog EXCEPT ![c] =
        Append(@, [phase |-> phase, stmt |-> stmt, answer |-> answer])]

\* store.go line 220: initSchemaOnDB is entered and the baseline is split
EnterInitSchemaOnDB(c) ==
    /\ Begin(c, "initSchemaOnDB", "baseline")
    /\ frags' = [frags EXCEPT ![c] = splitStatements(schema)]
    /\ UNCHANGED <<schema, defaultConfig, dbObjects>>

CallInitSchemaOnDB(c) ==
    /\ EnterInitSchemaOnDB(c)
    /\ UNCHANGED notSchema

\* lines 221-228 and 236-242: the fragment is empty or holds only comments
Skipped(stmt) == TrimSpace(stmt) = <<>> \/ isOnlyComments(TrimSpace(stmt))

\* one iteration that skips its fragment, in the loop at position pc
SkipFragment(c, pc) ==
    /\ mpc[c] = pc
    /\ frags[c] # <<>>
    /\ Skipped(Head(frags[c]))
    /\ frags' = [frags EXCEPT ![c] = Tail(@)]
    /\ UNCHANGED <<schema, defaultConfig, dbObjects, mtop, mpc, midx, mcalls,
                   mlog, merr, mprev>>
    /\ UNCHANGED notSchema

\* one iteration that executes its fragment, in the loop at position pc;
\* an error ends initSchemaOnDB with the wrapper fmt and the quoted text
ExecFragment(c, pc, fmt, quoted) ==
    /\ mpc[c] = pc
    /\ frags[c] # <<>>
    /\ ~Skipped(Head(frags[c]))
    /\ LET stmt == TrimSpace(Head(frags[c])) IN
       \E o \in ServerOutcomes(stmt, dbObjects) :
          /\ dbObjects' = o.objects
          /\ mlog' = Submitted(c, pc, stmt, o.answer)
          /\ IF o.answer.kind = "ok"
             THEN /\ frags' = [frags EXCEPT ![c] = Tail(@)]
                  /\ UNCHANGED <<mpc, merr>>
             ELSE /\ merr' = [merr EXCEPT ![c] =
                                 Failure(fmt, o.answer.msg,
                                         IF quoted THEN truncateForError(stmt)
                                         ELSE <<>>)]
                  /\ mpc' = [mpc EXCEPT ![c] = "done"]
                  /\ UNCHANGED frags
    /\ UNCHANGED <<schema, defaultConfig, mtop, midx, mcalls, mprev>>
    /\ UNCHANGED notSchema

\* lines 220-232
BaselineSkip(c) == SkipFragment(c, "baseline")

BaselineExec(c) ==
    ExecFragment(c, "baseline", "failed to create schema: %w\nStatement: %s",
                 TRUE)

\* line 235: the baseline loop is over and the seed script is split
BaselineEnd(c) ==
    /\ mpc[c] = "baseline"
    /\ frags[c] = <<>>
    /\ mpc' = [mpc EXCEPT ![c] = "seed"]
    /\ frags' = [frags EXCEPT ![c] = splitStatements(defaultConfig)]
    /\ UNCHANGED <<schema, defaultConfig, dbObjects, mtop, midx, mcalls, mlog,
                   merr, mprev>>
    /\ UNCHANGED notSchema

\* lines 235-246
SeedSkip(c) == SkipFragment(c, "seed")

SeedExec(c) ==
    ExecFragment(c, "seed", "failed to insert default config: %w", FALSE)

\* line 253: the seed loop is over
SeedEnd(c) ==
    /\ mpc[c] = "seed"
    /\ frags[c] = <<>>
    /\ mpc' = [mpc EXCEPT ![c] = "index"]
    /\ UNCHANGED <<schema, defaultConfig, dbObjects, mtop, frags, midx,
                   mcalls, mlog, merr, mprev>>
    /\ UNCHANGED notSchema

NeverIgnored(msg) == FALSE

\* one statement of initSchemaOnDB at position pc: an error for which
\* Ignored does not hold ends the function with the wrapper fmt
ExecStep(c, pc, stmt, Ignored(_), fmt, nextpc) ==
    /\ mpc[c] = pc
    /\ \E o \in ServerOutcomes(stmt, dbObjects) :
          /\ dbObjects' = o.objects
          /\ mlog' = Submitted(c, pc, stmt, o.answer)
          /\ IF o.answer.kind = "ok" \/ Ignored(o.answer.msg)
             THEN /\ mpc' = [mpc EXCEPT ![c] = nextpc]
                  /\ UNCHANGED merr
             ELSE /\ merr' = [merr EXCEPT ![c] =
                                 Failure(fmt, o.answer.msg, <<>>)]
                  /\ mpc' = [mpc EXCEPT ![c] = "done"]
    /\ UNCHANGED <<schema, defaultConfig, mtop, frags, midx, mcalls, mprev>>
    /\ UNCHANGED notSchema

\* lines 253-259 with no response taken for success
ExecIndexMigrationStrict(c) ==
    ExecStep(c, "index", S_indexIssueType, NeverIgnored,
             "failed to apply index migration: %w", "dropfk")

\* lines 250-259: the one index migration
ExecIndexMigration(c) ==
    ExecStep(c, "index", S_indexIssueType, IndexErrorIgnored,
             "failed to apply index migration: %w", "dropfk")

AlwaysIgnored(msg) == TRUE

\* lines 264-270 with every error taken for success
ExecDropForeignKeyLenient(c) ==
    ExecStep(c, "dropfk", S_dropForeignKey, AlwaysIgnored,
             "failed to drop fk_dep_depends_on: %w", "ready")

\* lines 264-270
ExecDropForeignKey(c) ==
    ExecStep(c, "dropfk", S_dropForeignKey, DropErrorIgnored,
             "failed to drop fk_dep_depends_on: %w", "ready")

\* lines 273-275
ExecReadyView(c) ==
    ExecStep(c, "ready", readyIssuesView, NeverIgnored,
             "failed to create ready_issues view: %w", "blocked")

\* lines 276-278, and the call of line 281
ExecBlockedView(c) ==
    ExecStep(c, "blocked", blockedIssuesView, NeverIgnored,
             "failed to create blocked_issues view: %w", "migrations")

\* RunMigrations called on its own, as a client holding a pool may
CallRunMigrations(c) ==
    /\ Begin(c, "RunMigrations", "migrations")
    /\ UNCHANGED <<schema, defaultConfig, dbObjects, frags>>
    /\ UNCHANGED notSchema

\* the first position of a migration's function
FirstStep(func) ==
    IF func = "migrateWispTypeColumn" THEN "wisp_check" ELSE "spec_check"

\* migrations.go lines 27-28: the next migration of the list is invoked
RunMigrationsInvoke(c) ==
    /\ mpc[c] = "migrations"
    /\ midx[c] <= Len(migrationsList)
    /\ mcalls' = [mcalls EXCEPT ![c] =
                     Append(@, [name |-> migrationsList[midx[c]].Name,
                                result |-> "running"])]
    /\ mpc' = [mpc EXCEPT ![c] = FirstStep(migrationsList[midx[c]].Func)]
    /\ UNCHANGED <<schema, defaultConfig, dbObjects, mtop, frags, midx, mlog,
                   merr, mprev>>
    /\ UNCHANGED notSchema

\* migrations.go line 32, and store.go line 285 when initSchemaOnDB made
\* the call: the list is exhausted
RunMigrationsReturn(c) ==
    /\ mpc[c] = "migrations"
    /\ midx[c] > Len(migrationsList)
    /\ mpc' = [mpc EXCEPT ![c] = "done"]
    /\ UNCHANGED <<schema, defaultConfig, dbObjects, mtop, frags, midx,
                   mcalls, mlog, merr, mprev>>
    /\ UNCHANGED notSchema

Finished(invoked, res) ==
    [invoked EXCEPT ![Len(invoked)] = [@ EXCEPT !.result = res]]

\* migrations.go lines 28-30 with the loop going on after a failure
MigrationReturnsContinue(c, e) ==
    /\ mcalls' = [mcalls EXCEPT ![c] =
                     Finished(@, IF e.isNil THEN "ok" ELSE "failed")]
    /\ midx' = [midx EXCEPT ![c] = @ + 1]
    /\ mpc' = [mpc EXCEPT ![c] = "migrations"]
    /\ UNCHANGED merr

\* migrations.go lines 28-30, and store.go lines 281-283 when
\* initSchemaOnDB made the call: the migration's function returns e
MigrationReturns(c, e) ==
    /\ mcalls' = [mcalls EXCEPT ![c] =
                     Finished(@, IF e.isNil THEN "ok" ELSE "failed")]
    /\ IF e.isNil
       THEN /\ midx' = [midx EXCEPT ![c] = @ + 1]
            /\ mpc' = [mpc EXCEPT ![c] = "migrations"]
            /\ UNCHANGED merr
       ELSE /\ merr' = [merr EXCEPT ![c] =
                  [e EXCEPT !.ctx =
                      (IF mtop[c] = "initSchemaOnDB"
                       THEN <<Wrapper("failed to run mariadb migrations: %w",
                                      "")>>
                       ELSE <<>>)
                      \o <<Wrapper("mariadb migration %q failed: %w",
                                   migrationsList[midx[c]].Name)>>
                      \o @]]
            /\ mpc' = [mpc EXCEPT ![c] = "done"]
            /\ UNCHANGED midx

\* the migration's function goes on to its position pc
MigrationGoesOn(c, pc) ==
    /\ mpc' = [mpc EXCEPT ![c] = pc]
    /\ UNCHANGED <<midx, mcalls, merr>>

\* migrations.go lines 47-60 without the test of the count
CheckColumnBlind(c, pc, query, fmt, nextpc) ==
    /\ mpc[c] = pc
    /\ \E o \in ServerOutcomes(query, dbObjects) :
          /\ dbObjects' = o.objects
          /\ mlog' = Submitted(c, "migrations", query, o.answer)
          /\ IF o.answer.kind # "ok"
             THEN MigrationReturns(c, Failure(fmt, o.answer.msg, <<>>))
             ELSE MigrationGoesOn(c, nextpc)
    /\ UNCHANGED <<schema, defaultConfig, mtop, frags, mprev>>
    /\ UNCHANGED notSchema

\* migrations.go lines 47-60 and 72-85: the catalog is asked whether the
\* column exists
CheckColumn(c, pc, query, fmt, nextpc) ==
    /\ mpc[c] = pc
    /\ \E o \in ServerOutcomes(query, dbObjects) :
          /\ dbObjects' = o.objects
          /\ mlog' = Submitted(c, "migrations", query, o.answer)
          /\ IF o.answer.kind # "ok"
             THEN MigrationReturns(c, Failure(fmt, o.answer.msg, <<>>))
             ELSE IF o.count > 0
             THEN MigrationReturns(c, NoErr)
             ELSE MigrationGoesOn(c, nextpc)
    /\ UNCHANGED <<schema, defaultConfig, mtop, frags, mprev>>
    /\ UNCHANGED notSchema

\* migrations.go lines 47-60
WispCheck(c) ==
    CheckColumn(c, "wisp_check", Q_wispType, "checking wisp_type column: %w",
                "wisp_alter")

\* one statement of a migration: an error for which Ignored does not hold
\* makes the function return it wrapped; otherwise the function goes on to
\* nextpc, or returns nil when nextpc is "return"
MigrationExec(c, pc, stmt, Ignored(_), fmt, nextpc) ==
    /\ mpc[c] = pc
    /\ \E o \in ServerOutcomes(stmt, dbObjects) :
          /\ dbObjects' = o.objects
          /\ mlog' = Submitted(c, "migrations", stmt, o.answer)
          /\ IF o.answer.kind # "ok" /\ ~Ignored(o.answer.msg)
             THEN MigrationReturns(c, Failure(fmt, o.answer.msg, <<>>))
             ELSE IF nextpc = "return"
             THEN MigrationReturns(c, NoErr)
             ELSE MigrationGoesOn(c, nextpc)
    /\ UNCHANGED <<schema, defaultConfig, mtop, frags, mprev>>
    /\ UNCHANGED notSchema

\* migrations.go lines 62-66
WispAlter(c) ==
    MigrationExec(c, "wisp_alter", S_addWispType, ColumnErrorIgnored,
                  "adding wisp_type column: %w", "return")

\* migrations.go lines 72-85
SpecCheck(c) ==
    CheckColumn(c, "spec_check", Q_specID, "checking spec_id column: %w",
                "spec_alter")

\* migrations.go lines 87-90
SpecAlter(c) ==
    MigrationExec(c, "spec_alter", S_addSpecID, ColumnErrorIgnored,
                  "adding spec_id column: %w", "spec_index")

\* migrations.go lines 93-98
SpecIndex(c) ==
    MigrationExec(c, "spec_index", S_indexSpecID, IndexErrorIgnored,
                  "creating spec_id index: %w", "return")

\* the steps of initSchemaOnDB up to its call of RunMigrations
InitSchemaSteps(c) ==
    \/ BaselineSkip(c)
    \/ BaselineExec(c)
    \/ BaselineEnd(c)
    \/ SeedSkip(c)
    \/ SeedExec(c)
    \/ SeedEnd(c)
    \/ ExecIndexMigration(c)
    \/ ExecDropForeignKey(c)
    \/ ExecReadyView(c)
    \/ ExecBlockedView(c)

\* the steps of RunMigrations and of the migrations it invokes
MigrationSteps(c) ==
    \/ RunMigrationsInvoke(c)
    \/ RunMigrationsReturn(c)
    \/ WispCheck(c)
    \/ WispAlter(c)
    \/ SpecCheck(c)
    \/ SpecAlter(c)
    \/ SpecIndex(c)

\* store.go lines 148-149 with no test of the read-only flag
NewInitSchemaAlways ==
    /\ npc = "schema"
    /\ EnterInitSchemaOnDB(1)
    /\ npc' = "inschema"
    /\ UNCHANGED <<cfg, envPassword, serverUp, serverHasDB, connStr, primary,
                   admin, pinged, schemaRun, nret, createResp, ndb>>
    /\ UNCHANGED notNewNorSchema

\* store.go lines 148-149: the store is not read-only and New calls
\* initSchema, which runs initSchemaOnDB on the store's pool
NewInitSchema ==
    /\ npc = "schema"
    /\ ~cfg.ReadOnly
    /\ EnterInitSchemaOnDB(1)
    /\ npc' = "inschema"
    /\ UNCHANGED <<cfg, envPassword, serverUp, serverHasDB, connStr, primary,
                   admin, pinged, schemaRun, nret, createResp, ndb>>
    /\ UNCHANGED notNewNorSchema

NewNext ==
    \/ NewDefaults
    \/ OpenPrimary
    \/ OpenPrimaryFails
    \/ OpenAdmin
    \/ OpenAdminFails
    \/ CreateDatabaseOK
    \/ CreateDatabaseExists
    \/ CreateDatabaseRefused
    \/ CreateDatabaseFails
    \/ PingOK
    \/ PingFails
    \/ NewReadOnly
    \/ NewInitSchema
    \/ InitSchemaSteps(1)
    \/ MigrationSteps(1)
    \/ NewSchemaOK
    \/ NewSchemaFails
    \/ ServerFlips

\* schema evolution run again and again by one client
EvolveNext ==
    \/ CallInitSchemaOnDB(1)
    \/ InitSchemaSteps(1)
    \/ MigrationSteps(1)
    \/ ServerFlips

\* RunMigrations run by the clients side by side
MigrateNext ==
    \/ \E c \in Clients : CallRunMigrations(c) \/ MigrationSteps(c)
    \/ ServerFlips

\* the two loops of initSchemaOnDB over the fragments of its scripts
FilterNext ==
    \/ CallInitSchemaOnDB(1)
    \/ BaselineSkip(1)
    \/ BaselineExec(1)
    \/ BaselineEnd(1)
    \/ SeedSkip(1)
    \/ SeedExec(1)
    \/ SeedEnd(1)

-----------------------------------------------------------------------------
(* Specifications: one per component, the other components at rest *)

\* splitStatements applied to every enumerated script
InitSplit ==
    SplitInit /\ ClassifyIdle /\ RetryIdle /\ StoreIdle /\ NewIdle /\ SchemaIdle

SpecSplit == InitSplit /\ [][SplitNext]_vars

\* isRetryableError applied to every enumerated error
InitClassify ==
    ClassifyInit /\ SplitIdle /\ RetryIdle /\ StoreIdle /\ NewIdle /\ SchemaIdle

SpecClassify == InitClassify /\ [][ClassifyNext]_vars

\* withRetry over every modelled operation; its goroutine keeps running and
\* time keeps passing, while the caller may or may not cancel
InitRetry ==
    RetryInit /\ SplitIdle /\ ClassifyIdle /\ StoreIdle /\ NewIdle /\ SchemaIdle

SpecRetry == InitRetry /\ [][RetryNext]_vars /\ WF_vars(RetryStep)

\* a store as New returns it, used and closed by NumProcs goroutines
InitStore ==
    StoreInit /\ SplitIdle /\ ClassifyIdle /\ RetryIdle /\ NewIdle /\ SchemaIdle

SpecStore == InitStore /\ [][StoreNext]_vars

\* New called with every modelled configuration against a server in every
\* modelled condition
InitNew ==
    /\ NewInit /\ SplitIdle /\ ClassifyIdle /\ RetryIdle /\ StoreIdle
    /\ ScriptsOfTheProgram
    /\ dbObjects \in (IF serverHasDB
                      THEN {FreshObjects, LegacyObjects, CurrentObjects}
                      ELSE {FreshObjects})
    /\ NoClientState

SpecNew == InitNew /\ [][NewNext]_vars

\* the other components at rest, the server holding the database
RestOfProgram ==
    SplitIdle /\ ClassifyIdle /\ RetryIdle /\ StoreIdle /\ ServerRunning

\* one client opening its store read-write on a fresh or an older database,
\* MaxRuns times in a row
InitEvolve ==
    /\ RestOfProgram
    /\ ScriptsOfTheProgram
    /\ dbObjects \in {FreshObjects, LegacyObjects}
    /\ NoClientState

SpecEvolve == InitEvolve /\ [][EvolveNext]_vars

\* the clients running RunMigrations side by side on a database with no
\* tables, with the tables of the baseline, or with every change applied
InitMigrate ==
    /\ RestOfProgram
    /\ ScriptsOfTheProgram
    /\ dbObjects \in {FreshObjects, LegacyObjects, CurrentObjects}
    /\ NoClientState

SpecMigrate == InitMigrate /\ [][MigrateNext]_vars

\* the two loops of initSchemaOnDB over every enumerated script
InitFilter ==
    /\ RestOfProgram
    /\ \/ schema \in FilterScripts /\ defaultConfig = <<>>
       \/ schema = <<>> /\ defaultConfig \in FilterScripts
    /\ dbObjects = FreshObjects
    /\ NoClientState

SpecFilter == InitFilter /\ [][FilterNext]_vars

-----------------------------------------------------------------------------
(* What the claims about the splitter speak of, stated on the script alone *)

RECURSIVE InsideLiteral(_, _)

\* position j holds a quote character that opens a literal
OpensLiteral(s, j) == s[j] \in QuoteChars /\ ~InsideLiteral(s, j)

\* position k holds an unescaped occurrence of the quote that opened at j
UnescapedClose(s, j, k) == s[k] = s[j] /\ s[k - 1] # BS

\* position p lies inside a literal opened before it and not yet closed
InsideLiteral(s, p) ==
    \E j \in 1..(p - 1) :
        /\ OpensLiteral(s, j)
        /\ \A k \in (j + 1)..(p - 1) : ~UnescapedClose(s, j, k)

\* the positions of the separating semicolons of s
Separators(s) == {p \in 1..Len(s) : s[p] = SEMI /\ ~InsideLiteral(s, p)}

Max(S) == CHOOSE x \in S : \A y \in S : y <= x

\* the text after the last separating semicolon, or all of s
TrailingText(s) ==
    IF Separators(s) = {} THEN s
    ELSE SubSeq(s, Max(Separators(s)) + 1, Len(s))

\* the step taken ends a statement at position i
EndsStatementHere ==
    /\ spc = "scan" /\ i <= Len(script)
    /\ script[i] = SEMI
    /\ i' = i + 1
    /\ current' = <<>>

\* C1: splitStatements never ends a statement at a semicolon inside a literal
\* that a quote character opened and no unescaped occurrence of the same
\* quote has closed; the example script yields exactly its two statements.
C1_NoSplitInsideLiteral ==
    /\ [][EndsStatementHere => ~InsideLiteral(script, i)]_vars
    /\ [](spc = "done" /\ script = ExampleScript
            => statements = <<ExampleFirst, ExampleSecond>>)

\* a semicolon inside a literal that holds an escaped occurrence of its own
\* quote has been passed without ending the statement
C1_Witness ==
    /\ spc = "done"
    /\ \E j \in 1..Len(script), p \in 1..Len(script) :
          /\ OpensLiteral(script, j)
          /\ p > j
          /\ script[p] = SEMI
          /\ InsideLiteral(script, p)
          /\ \E k \in (j + 2)..(p - 1) :
                script[k] = script[j] /\ script[k - 1] = BS
    /\ Len(statements) = 1

\* C2: the text after the last separating semicolon (the whole script when
\* there is none) is the last statement emitted whenever it is non-empty
\* after trimming, also when the input ends inside an unterminated literal.
C2_FinalStatementEmitted ==
    spc = "done" /\ TrimSpace(TrailingText(script)) # <<>>
        => /\ statements # <<>>
           /\ statements[Len(statements)] = TrimSpace(TrailingText(script))

\* a script that ends inside an unterminated literal, after a separator
C2_Witness ==
    /\ spc = "done"
    /\ inString
    /\ Separators(script) # {}
    /\ TrimSpace(TrailingText(script)) # <<>>
    /\ Len(statements) = 2

-----------------------------------------------------------------------------
(* What the claims about the classification speak of *)

\* two bytes that differ at most in letter case
SameLetter(a, b) ==
    \/ a = b
    \/ \E k \in 1..26 : {a, b} = {UpperLetters[k], LowerLetters[k]}

\* s contains pat, compared case-insensitively
ContainsFold(s, pat) ==
    \E off \in 0..(Len(s) - Len(pat)) :
        \A k \in 1..Len(pat) : SameLetter(s[off + k], pat[k])

\* the error carries one of the substrings the code treats as transient
HasTransientText(e) ==
    /\ ~e.isNil
    /\ \/ ContainsFold(e.msg, P_driverBadConnection)
       \/ ContainsFold(e.msg, P_invalidConnection)
       \/ ContainsFold(e.msg, P_brokenPipe)
       \/ ContainsFold(e.msg, P_connectionReset)

\* C3 as claimed: retryable exactly when the message contains, compared
\* case-insensitively, "bad connection", "invalid connection", "broken pipe"
\* or "connection reset"; every other error, and nil, is permanent.
C3_AsClaimed ==
    cpc = "done" =>
        (retryable <=>
            /\ ~err.isNil
            /\ \/ ContainsFold(err.msg, P_badConnection)
               \/ ContainsFold(err.msg, P_invalidConnection)
               \/ ContainsFold(err.msg, P_brokenPipe)
               \/ ContainsFold(err.msg, P_connectionReset))

\* C3 amended: retryable exactly when the message contains, compared
\* case-insensitively, "driver: bad connection", "invalid connection",
\* "broken pipe" or "connection reset"; every other error, and nil, is
\* permanent.
C3_RetryableExactly ==
    cpc = "done" => (retryable <=> HasTransientText(err))

\* a "driver: bad connection" message with none of the other substrings has
\* been classified retryable
C3_Witness ==
    /\ cpc = "done"
    /\ retryable
    /\ Contains(err.msg, P_driverBadConnection)
    /\ ~ContainsFold(err.msg, P_invalidConnection)
    /\ ~ContainsFold(err.msg, P_brokenPipe)
    /\ ~ContainsFold(err.msg, P_connectionReset)

-----------------------------------------------------------------------------
(* What the claims about withRetry speak of *)

\* the error carries "connection refused"
IsRefused(e) == ~e.isNil /\ ContainsFold(e.msg, P_connectionRefused)

AlwaysBrokenPipe ==
    /\ op.always
    /\ ContainsFold(op.first.msg, P_brokenPipe)

\* C5 as claimed: when the operation fails on every invocation with "broken
\* pipe" and the context is never cancelled, withRetry has invoked it at
\* least twice when it returns, and returns the last invocation's error.
C5_AsClaimed ==
    rpc = "done" /\ AlwaysBrokenPipe /\ ~ctxDone =>
        /\ calls >= 2
        /\ result = opErr /\ opErr = OpOutcome(calls)

\* C5 amended: under the same conditions withRetry eventually returns; it
\* returns when the time elapsed since it started (the operation's own
\* running time included) plus the next backoff interval passes
\* serverRetryMaxElapsed; it returns the last invocation's error; and it has
\* invoked the operation at least twice unless the first invocation alone
\* ran for more than serverRetryMaxElapsed less the longest first backoff
\* interval.
C5_RetriedUntilCeiling ==
    /\ [](rpc = "done" /\ AlwaysBrokenPipe /\ ~ctxDone =>
            /\ result = opErr /\ opErr = OpOutcome(calls)
            /\ elapsed + next > serverRetryMaxElapsed
            /\ \/ calls >= 2
               \/ elapsed + InitialInterval + InitialInterval \div 2
                      > serverRetryMaxElapsed)
    /\ (AlwaysBrokenPipe => <>(ctxDone \/ rpc = "done"))

\* withRetry has returned the "broken pipe" error at the ceiling after
\* several quick invocations, the context never cancelled
C5_Witness ==
    /\ rpc = "done"
    /\ AlwaysBrokenPipe
    /\ ~ctxDone
    /\ calls >= 3
    /\ result = OpOutcome(calls)
    /\ elapsed <= serverRetryMaxElapsed

\* C6: once the context is cancelled while withRetry is handling a
\* retryable failure or waiting in a backoff sleep whose timer has not
\* expired, the next thing withRetry does is return the context's error:
\* no further invocation, no further waiting.
C6_CancelStopsRetry ==
    [][ctxDone /\ (rpc = "backoff" \/ (rpc = "sleep" /\ ~timerFired)) =>
          /\ rpc' = "done"
          /\ result' = CtxCanceled
          /\ calls' = calls
          /\ elapsed' = elapsed]_vars

\* withRetry has returned the context's error out of its second backoff
\* sleep, before that sleep's timer expired
C6_Witness ==
    /\ rpc = "done"
    /\ ctxDone
    /\ result = CtxCanceled
    /\ calls = 2
    /\ next > 0 /\ ~timerFired

-----------------------------------------------------------------------------
(* What the claims about the store's lifecycle speak of *)

\* goroutine p has returned from a call of method m that began after a call
\* of Close had returned
ReturnedAfterClose(p, m) ==
    gop[p] = m /\ gpc[p] = "idle" /\ gret[p] # "none" /\ gafter[p]

\* C7: a call of Close after a first Close has returned does not call Close
\* on the pool again and returns no error, whatever the first returned.
C7_CloseIdempotent ==
    /\ ~poolReclosed
    /\ \A p \in Procs :
          /\ gop[p] = "Close" /\ gafter[p] /\ gpc[p] \in {"clear", "return"}
                => glocal[p] = "nil"
          /\ ReturnedAfterClose(p, "Close") => gret[p] = "nil"

\* a second Close has returned after a first Close returned an error
C7_Witness ==
    \E p, q \in Procs :
        /\ p # q
        /\ gop[q] = "Close" /\ gpc[q] = "idle" /\ gret[q] = "close error"
        /\ ReturnedAfterClose(p, "Close")

\* C8: after Close has returned, UnderlyingConn is rejected with a "closed"
\* error value and the program does not crash on the cleared pool reference.
C8_RejectedWithClosedError ==
    /\ closeReturned => ~crashed
    /\ \A p \in Procs :
          ReturnedAfterClose(p, "UnderlyingConn") => gret[p] = "store is closed"

\* goroutine p is about to read or write s.db
AccessesDB(p) ==
    \/ gop[p] = "Close" /\ gpc[p] \in {"check", "clear"}
    \/ gop[p] \in {"UnderlyingDB", "UnderlyingConn"} /\ gpc[p] = "read"

\* C9: every read or write of s.db happens with the store's lock held, and
\* no user is handed a nil pool.
C9_PoolAccessUnderLock ==
    \A p \in Procs :
        /\ AccessesDB(p) => mu = p
        /\ gop[p] = "UnderlyingDB" /\ gpc[p] = "idle" => gret[p] # NilDB

-----------------------------------------------------------------------------
(* What the claims about New speak of *)

\* C10: New returns a store only if the ping of the primary pool succeeded;
\* if the ping fails, New closes the primary pool and returns an error and
\* no store.
C10_StoreOnlyIfPinged ==
    npc = "returned" =>
        /\ nret.store => pinged = "ok"
        /\ pinged = "failed" =>
              /\ ~nret.store
              /\ nret.err # "nil"
              /\ primary = "closed"

\* New has returned after a failed ping that followed a successful
\* administrative request
C10_Witness ==
    /\ npc = "returned"
    /\ pinged = "failed"
    /\ admin = "closed"
    /\ primary = "closed"
    /\ ~nret.store

-----------------------------------------------------------------------------
(* Claims about schema evolution *)

\* the last element of a non-empty sequence
Last(s) == s[Len(s)]

\* no statement in the log was refused for want of a running server
NoRefusal(log) == \A k \in 1..Len(log) : log[k].answer.kind # "refused"

\* the statements of a log, in the order submitted
StatementsOf(log) == [k \in 1..Len(log) |-> log[k].stmt]

\* C11: when New is called with ReadOnly set, schema evolution is skipped
\* entirely: no baseline or seed statement, index creation, foreign-key
\* drop, view creation or migration is executed against the database, whose
\* objects stay as they were, and New still returns the store if connection
\* setup and ping succeed.
C11_ReadOnlySkipsSchema ==
    /\ [](cfg.ReadOnly =>
             /\ mpc[1] = "idle"
             /\ mlog[1] = <<>>
             /\ mcalls[1] = <<>>
             /\ schemaRun = "none")
    /\ [](cfg.ReadOnly /\ npc = "returned" /\ pinged = "ok" =>
             nret.store /\ nret.err = "nil")
    /\ [][cfg.ReadOnly => dbObjects' = dbObjects]_vars

\* New has returned a read-only store on a database of an earlier version,
\* which still lacks what schema evolution would have added
C11_Witness ==
    /\ npc = "returned"
    /\ cfg.ReadOnly
    /\ nret.store
    /\ dbObjects = LegacyObjects

\* C12: schema evolution is idempotent: if a run of initSchemaOnDB has
\* succeeded, the next run against the resulting database, answered by a
\* running server, returns no error and leaves the database's tables,
\* columns, indexes, constraints and views unchanged.
C12_SecondRunIdempotent ==
    /\ [](\A c \in Clients :
             (/\ mtop[c] = "initSchemaOnDB"
              /\ mpc[c] = "done"
              /\ mprev[c] # <<>>
              /\ Last(mprev[c]).isNil
              /\ NoRefusal(mlog[c])) => merr[c].isNil)
    /\ [][\A c \in Clients :
             (/\ mtop[c] = "initSchemaOnDB"
              /\ mprev[c] # <<>>
              /\ Last(mprev[c]).isNil) => dbObjects' = dbObjects]_vars

\* a second run has returned no error after a first that succeeded, having
\* met the duplicate index and the missing constraint on its way
C12_Witness ==
    /\ mpc[1] = "done"
    /\ Len(mprev[1]) = 1
    /\ mprev[1][1].isNil
    /\ merr[1].isNil
    /\ \E k \in 1..Len(mlog[1]) : mlog[1][k].answer.kind = "dupkey"
    /\ \E k \in 1..Len(mlog[1]) : mlog[1][k].answer.kind = "noconstraint"

\* the column a position of a migration asks the catalog about
ColumnAt(pc) ==
    IF pc = "wisp_check" THEN "issues.wisp_type" ELSE "issues.spec_id"

QueryAt(pc) == IF pc = "wisp_check" THEN Q_wispType ELSE Q_specID

\* C13: when a column-adding migration runs against a database in which its
\* column already exists and the catalog query succeeds, it returns no
\* error, issues no ALTER TABLE (the query is all it submits), and the table
\* still has the column, once.
C13_ExistingColumnNoAlter ==
    [][\A c \in Clients :
          (/\ mpc[c] \in {"wisp_check", "spec_check"}
           /\ mpc'[c] # mpc[c]
           /\ serverUp
           /\ ColumnAt(mpc[c]) \in dbObjects)
          => /\ mpc'[c] = "migrations"
             /\ Last(mcalls'[c]).result = "ok"
             /\ merr'[c].isNil
             /\ StatementsOf(mlog'[c]) =
                    Append(StatementsOf(mlog[c]), QueryAt(mpc[c]))
             /\ dbObjects' = dbObjects]_vars

\* a run of RunMigrations has returned no error having submitted nothing
\* but its two catalog queries, both columns being there
C13_Witness ==
    \E c \in Clients :
        /\ mpc[c] = "done"
        /\ merr[c].isNil
        /\ StatementsOf(mlog[c]) = <<Q_wispType, Q_specID>>
        /\ {"issues.wisp_type", "issues.spec_id"} \subseteq dbObjects

\* the names of the registered migrations, in the order of registration
RegisteredOrder == <<"wisp_type_column", "spec_id_column">>

\* C14: RunMigrations invokes the registered migrations strictly in list
\* order, each at most once per run; if a migration returns an error no
\* later migration is invoked and the returned error wraps the cause and
\* names that migration.
C14_MigrationsInOrder ==
    \A c \in Clients :
        /\ Len(mcalls[c]) <= Len(RegisteredOrder)
        /\ \A k \in 1..Len(mcalls[c]) :
              /\ mcalls[c][k].name = RegisteredOrder[k]
              /\ k < Len(mcalls[c]) => mcalls[c][k].result = "ok"
        /\ (mcalls[c] # <<>> /\ Last(mcalls[c]).result = "failed") =>
              /\ mpc[c] = "done"
              /\ ~merr[c].isNil
              /\ merr[c].cause = Last(mlog[c]).answer.msg
              /\ \E j \in 1..Len(merr[c].ctx) :
                    merr[c].ctx[j] =
                        Wrapper("mariadb migration %q failed: %w",
                                Last(mcalls[c]).name)
        /\ (mtop[c] = "RunMigrations" /\ mpc[c] = "done" /\ merr[c].isNil) =>
              Len(mcalls[c]) = Len(RegisteredOrder)

\* RunMigrations has returned the error of its second migration, the
\* first having succeeded
C14_Witness ==
    \E c \in Clients :
        /\ mpc[c] = "done"
        /\ Len(mcalls[c]) = 2
        /\ mcalls[c][1].result = "ok"
        /\ mcalls[c][2].result = "failed"
        /\ ~merr[c].isNil

-----------------------------------------------------------------------------
(* Claims about openServerConnection *)

\* C15: when the administrative "create database if absent" request fails,
\* for every configuration, only a failure that means that the database
\* already exists is treated as success; a failure that means that the
\* server is unreachable (connection refused) makes openServerConnection
\* return the actionable error naming host:port; any other failure is
\* returned as "failed to create database"; and in both error cases the
\* primary pool has been closed.
C15_CreateFailureHandled ==
    /\ ndb # "none" => createResp.kind \in {"ok", "exists"}
    /\ createResp.kind = "refused" =>
          /\ npc = "returned"
          /\ nret.err = "failed to connect to MariaDB server at"
          /\ nret.host = cfg.Host
          /\ nret.port = cfg.Port
          /\ primary = "closed"
    /\ createResp.kind = "denied" =>
          /\ npc = "returned"
          /\ nret.err = "failed to create database"
          /\ primary = "closed"

\* C16: on every exit path of openServerConnection on which the
\* administrative pool was opened, that pool is closed before the function
\* returns, and it is never the pool handed to the store.
C16_AdminClosedOnExit ==
    /\ (npc # "createdb" /\ admin # "none") => admin = "closed"
    /\ ndb # "admin"
    /\ nret.store => ndb = "primary"

\* openServerConnection has returned "failed to create database" after
\* having opened the administrative pool
C16_Witness ==
    /\ npc = "returned"
    /\ createResp.kind = "denied"
    /\ nret.err = "failed to create database"
    /\ admin = "closed"

-----------------------------------------------------------------------------
(* Claims about the order of schema evolution and about its fragments *)

\* the place of a step in the order the claim gives
Rank(phase) ==
    CASE phase = "baseline" -> 1
      [] phase = "seed" -> 2
      [] phase = "index" -> 3
      [] phase = "dropfk" -> 4
      [] phase = "ready" -> 5
      [] phase = "blocked" -> 6
      [] phase = "migrations" -> 7

\* the steps made of one statement only
SingleStatement == {"index", "dropfk", "ready", "blocked"}

\* the statement succeeded, or met a response that is harmless at its step:
\* the index is there already, the constraint is gone already, the column
\* is there already
WentWell(e) ==
    \/ e.answer.kind = "ok"
    \/ e.phase = "index" /\ e.answer.kind = "dupkey"
    \/ e.phase = "dropfk" /\ e.answer.kind = "noconstraint"
    \/ e.phase = "migrations" /\ e.answer.kind \in {"dupcolumn", "dupkey"}

\* C17: initSchemaOnDB performs its steps in the order baseline statements,
\* seed statements, index creation, foreign-key drop, ready view, blocked
\* view, registered migrations; a step is executed only if every earlier
\* step succeeded or met a recognised harmless response; the first
\* unrecognised failure aborts with no later statement executed, and New
\* then returns an error and no store.
C17_StepsInOrder ==
    LET L == mlog[1] IN
    /\ \A k \in 1..Len(L) :
          /\ \A j \in 1..(k - 1) :
                /\ Rank(L[j].phase) <= Rank(L[k].phase)
                /\ L[k].phase \in SingleStatement =>
                       L[j].phase # L[k].phase
                /\ WentWell(L[j])
          /\ \A r \in 1..(Rank(L[k].phase) - 1) :
                \E j \in 1..(k - 1) : Rank(L[j].phase) = r
    /\ mpc[1] = "done" =>
          /\ L # <<>>
          /\ merr[1].isNil <=> WentWell(Last(L))
          /\ merr[1].isNil => Rank(Last(L).phase) = 7
    /\ (npc = "returned" /\ mpc[1] = "done" /\ ~merr[1].isNil) =>
          /\ ~nret.store
          /\ nret.err = "failed to initialize schema"

\* New has returned the error of a schema evolution that was answered the
\* missing constraint at the foreign-key drop, went on, and was aborted by
\* a later statement
C17_Witness ==
    /\ npc = "returned"
    /\ ~nret.store
    /\ ~merr[1].isNil
    /\ \E k \in 1..Len(mlog[1]) : mlog[1][k].answer.kind = "noconstraint"
    /\ Rank(Last(mlog[1]).phase) > 4
    /\ ~WentWell(Last(mlog[1]))

\* the lines of a fragment, each by its first and last byte (last below
\* first for an empty line)
LineBounds(f) ==
    {<<a, b>> \in (1..(Len(f) + 1)) \X (0..Len(f)) :
        /\ a = 1 \/ f[a - 1] = "\n"
        /\ b = Len(f) \/ f[b + 1] = "\n"
        /\ b >= a - 1
        /\ \A p \in a..b : f[p] # "\n"}

\* the line is blank, or its first two bytes that are not white space are
\* the line-comment marker
BlankOrComment(f, a, b) ==
    \/ \A p \in a..b : f[p] \in WhiteSpace
    \/ \E p \in a..(b - 1) :
          /\ \A q \in a..(p - 1) : f[q] \in WhiteSpace
          /\ f[p] = "-"
          /\ f[p + 1] = "-"

\* every line of the fragment is blank or a comment
CommentOnly(f) ==
    \A l \in LineBounds(f) : BlankOrComment(f, l[1], l[2])

NotCommentOnly(f) == ~CommentOnly(f)

\* the fragments of both scripts that are to be executed, in script order
ToExecute ==
    SelectSeq(splitStatements(schema), NotCommentOnly)
    \o SelectSeq(splitStatements(defaultConfig), NotCommentOnly)

IsPrefix(s, t) == Len(s) <= Len(t) /\ s = SubSeq(t, 1, Len(s))

\* C18: of the fragments the splitter produces for the baseline and seed
\* scripts, exactly those whose every line is blank or begins with "--"
\* are withheld from execution; a fragment with at least one other line,
\* even one that starts with comment lines, is submitted, and fragments are
\* submitted in script order.
C18_CommentOnlyWithheld ==
    /\ IsPrefix(StatementsOf(mlog[1]), ToExecute)
    /\ mpc[1] = "index" => StatementsOf(mlog[1]) = ToExecute
    /\ (mpc[1] = "done" /\ merr[1].isNil) => StatementsOf(mlog[1]) = ToExecute

\* both loops are over and a fragment that starts with a comment line and
\* has another line was submitted
C18_Witness ==
    /\ mpc[1] = "index"
    /\ \E k \in 1..Len(mlog[1]) :
          /\ HasDashPrefix(mlog[1][k].stmt)
          /\ \E p \in 1..Len(mlog[1][k].stmt) : mlog[1][k].stmt[p] = "a"

\* the objects a migration is there to add
ChangeOf(name) ==
    IF name = "wisp_type_column" THEN {"issues.wisp_type"}
    ELSE {"issues.spec_id", "idx_issues_spec_id"}

\* C19: each registered migration, when it returns success, leaves the
\* database with its change fully applied, from every starting state: the
\* wisp_type column after migrateWispTypeColumn, the spec_id column and the
\* index on it after migrateSpecIDColumn, also when the column was there
\* and the index was not.
C19_MigrationApplied ==
    \A c \in Clients :
        \A k \in 1..Len(mcalls[c]) :
            mcalls[c][k].result = "ok" =>
                ChangeOf(mcalls[c][k].name) \subseteq dbObjects

\* C20: when two clients run RunMigrations side by side against one
\* database holding the issues table, and the server answers all their
\* statements, then under every interleaving both runs return no error and
\* the final schema has each migrated column and the spec_id index.
C20_ConcurrentMigrations ==
    (/\ \A c \in Clients : mpc[c] = "done" /\ NoRefusal(mlog[c])
     /\ "issues" \in dbObjects)
    => /\ \A c \in Clients : merr[c].isNil
       /\ {"issues.wisp_type", "issues.spec_id", "idx_issues_spec_id"}
              \subseteq dbObjects

-----------------------------------------------------------------------------
(* Claims about withRetry's classification, the closed flag, and the pools  *)
(* and requests of New                                                      *)

\* invocation number n of the operation returned an error that
\* isRetryableError accepts
RetryableOutcome(n) ==
    ~OpOutcome(n).isNil /\ isRetryableError(OpOutcome(n))

\* invocation number n returned an error that isRetryableError rejects
PermanentOutcome(n) ==
    ~OpOutcome(n).isNil /\ ~isRetryableError(OpOutcome(n))

\* C21: whatever the operation's invocations return, each outcome is
\* classified on its own: every invocation but the last returned a retryable
\* error (so the operation is invoked again only after a retryable error and
\* never after a success or a permanent error), withRetry returns nil when
\* the last invocation succeeded, and the permanent error itself, not
\* wrapped, when the last invocation failed permanently.
C21_ClassifiedPerOutcome ==
    /\ \A n \in 1..(calls - 1) : RetryableOutcome(n)
    /\ (rpc = "done" /\ calls >= 1 /\ OpOutcome(calls).isNil)
           => result = NilError
    /\ (rpc = "done" /\ calls >= 1 /\ PermanentOutcome(calls))
           => result = OpOutcome(calls)

\* retryable, retryable, success: nil after three invocations
C21_Witness ==
    /\ rpc = "done"
    /\ calls = 3
    /\ RetryableOutcome(1)
    /\ RetryableOutcome(2)
    /\ OpOutcome(3).isNil
    /\ result = NilError

\* some call of Close has executed its first statement, the store of the
\* flag (line 362), or has returned
CloseBegun ==
    \/ closeReturned
    \/ \E p \in Procs :
          gop[p] = "Close" /\ gpc[p] \in {"lock", "check", "clear", "return"}

\* goroutine q's call of IsClosed loads the flag and returns
IsClosedReturns(q) ==
    gop[q] = "IsClosed" /\ gpc[q] = "load" /\ gpc'[q] = "idle"

\* C22: under every interleaving of the store's methods, the closed flag
\* never goes back from true to false; the pool reference changes only to
\* nil and only while the flag is true; once a call of Close has begun (its
\* first statement executed) the flag is true and every IsClosed returns
\* true, also while that Close is still waiting for the lock or closing the
\* pool; and once a call of Close has returned the flag is true and the pool
\* reference is nil, whatever closing the pool returned.
C22_ClosedFlagMonotonic ==
    /\ [](CloseBegun => closed)
    /\ [](closeReturned => closed /\ db = NilDB)
    /\ [][closed => closed']_vars
    /\ [][db' # db => closed /\ db' = NilDB]_vars
    /\ [][\A q \in Procs :
            (IsClosedReturns(q) /\ CloseBegun) => gret'[q] = "true"]_vars

\* a call of Close has returned the pool's error, and a call of IsClosed
\* that began before any Close had returned has returned true
C22_Witness ==
    \E p, q \in Procs :
        /\ p # q
        /\ gop[p] = "Close" /\ gpc[p] = "idle" /\ gret[p] = "close error"
        /\ gop[q] = "IsClosed" /\ gpc[q] = "idle" /\ gret[q] = "true"
        /\ ~gafter[q]
        /\ closed
        /\ db = NilDB

\* C23: whenever New returns an error after the primary pool was opened (the
\* administrative pool could not be opened, the CREATE DATABASE request
\* failed, the ping failed, or schema evolution failed), the primary pool has
\* been closed by the time New returns.
C23_PrimaryClosedOnFailure ==
    (npc = "returned" /\ ~nret.store /\ primary # "none")
        => primary = "closed"

\* New has sent the CREATE DATABASE request and has the answer
RequestIssued == createResp # NoAnswer

\* New has returned because sql.Open failed, for the primary or for the
\* administrative pool
OpenFailed ==
    nret.err \in {"failed to open MariaDB server connection",
                  "failed to open init connection"}

\* the request comes before the ping, whatever the ReadOnly flag; what the
\* server accepts creates the database; a store opened read-only has its
\* database on the server
CreateBeforePing ==
    /\ [](pinged # "none" \/ nret.store => RequestIssued)
    /\ [][(~RequestIssued /\ RequestIssued')
            => npc = "createdb" /\ pinged = "none"]_vars
    /\ [][(~RequestIssued /\ createResp'.kind = "ok") => serverHasDB']_vars
    /\ [](nret.store /\ cfg.ReadOnly => serverHasDB)

\* C24 as stated: the CREATE DATABASE IF NOT EXISTS request is issued on
\* every call of New, whatever the ReadOnly flag, and before the ping, so
\* that a read-only open against a server lacking the database creates it.
C24_CreateOnEveryCall ==
    /\ [](npc = "returned" => RequestIssued)
    /\ CreateBeforePing

\* C24: the CREATE DATABASE IF NOT EXISTS request is issued on every call
\* of New on which both pools could be opened (a call on which sql.Open
\* fails returns before the request), whatever the ReadOnly flag, and before
\* the ping, so that a read-only open against a server lacking the database
\* creates it.
C24_CreateBeforePing ==
    /\ [](npc = "returned" => RequestIssued \/ OpenFailed)
    /\ CreateBeforePing

\* New has returned a read-only store, and its request created the database
C24_Witness ==
    /\ npc = "returned"
    /\ nret.store
    /\ cfg.ReadOnly
    /\ createResp = AnswerCreated
    /\ serverHasDB

=============================================================================
